---------------------------- MODULE Spec2Model ----------------------------
(***************************************************************************)
(* A model of the arbordex constant-product pool: the pool engine          *)
(* (executeSwap, addLiquidity, withdrawLiquidity), the AMM math, the       *)
(* validation functions and the HTTP handlers that compose them.           *)
(*                                                                         *)
(* Every quantity of the program is a JavaScript number, an IEEE-754       *)
(* binary64 value.  The model computes with binary64 values exactly as     *)
(* the program does: a number is a sign, a 53-bit significand and a binary *)
(* exponent, and every arithmetic operation rounds its exact result to the *)
(* nearest value, ties to even.  Significands do not fit TLC's integers,   *)
(* so they are kept as little-endian sequences of 15-bit limbs.  Overflow  *)
(* to infinity and subnormal values are not modelled: every value the      *)
(* model computes lies between 2^-200 and 2^200 in magnitude.              *)
(***************************************************************************)
EXTENDS Integers, Sequences, FiniteSets, TLC

-----------------------------------------------------------------------------
(* Natural numbers of any size: little-endian limb sequences, no high zero *)
(* limb, <<>> for zero.                                                    *)

LimbBits == 15
Base == 2 ^ LimbBits

RECURSIVE BNorm(_)
BNorm(a) ==
    IF a = <<>> THEN a
    ELSE IF a[Len(a)] = 0 THEN BNorm(SubSeq(a, 1, Len(a) - 1))
    ELSE a

RECURSIVE BAddC(_, _, _)
BAddC(a, b, c) ==
    IF a = <<>> /\ b = <<>> THEN (IF c = 0 THEN <<>> ELSE <<c>>)
    ELSE LET x == IF a = <<>> THEN 0 ELSE Head(a)
             y == IF b = <<>> THEN 0 ELSE Head(b)
             s == x + y + c
         IN  <<s % Base>> \o BAddC(IF a = <<>> THEN a ELSE Tail(a),
                                   IF b = <<>> THEN b ELSE Tail(b),
                                   s \div Base)

BAdd(a, b) == BAddC(a, b, 0)

\* a - b for a >= b, before normalisation
RECURSIVE BSubC(_, _, _)
BSubC(a, b, c) ==
    IF a = <<>> THEN <<>>
    ELSE LET y == IF b = <<>> THEN 0 ELSE Head(b)
             s == Head(a) - y - c
         IN  <<s % Base>> \o BSubC(Tail(a),
                                   IF b = <<>> THEN b ELSE Tail(b),
                                   IF s < 0 THEN 1 ELSE 0)

BSub(a, b) == BNorm(BSubC(a, b, 0))

\* -1, 0, 1 as a < b, a = b, a > b
RECURSIVE BCmpFrom(_, _, _)
BCmpFrom(a, b, i) ==
    IF i = 0 THEN 0
    ELSE IF a[i] < b[i] THEN -1
    ELSE IF a[i] > b[i] THEN 1
    ELSE BCmpFrom(a, b, i - 1)

BCmp(a, b) ==
    IF Len(a) < Len(b) THEN -1
    ELSE IF Len(a) > Len(b) THEN 1
    ELSE BCmpFrom(a, b, Len(a))

RECURSIVE BMulSmallC(_, _, _)
BMulSmallC(a, d, c) ==
    IF a = <<>> THEN (IF c = 0 THEN <<>> ELSE <<c>>)
    ELSE LET s == Head(a) * d + c
         IN  <<s % Base>> \o BMulSmallC(Tail(a), d, s \div Base)

BMulSmall(a, d) == IF d = 0 THEN <<>> ELSE BMulSmallC(a, d, 0)

Zeros(n) == [i \in 1..n |-> 0]

RECURSIVE BitLen(_)
BitLen(x) == IF x = 0 THEN 0 ELSE 1 + BitLen(x \div 2)

BBitLen(a) ==
    IF a = <<>> THEN 0 ELSE LimbBits * (Len(a) - 1) + BitLen(a[Len(a)])

BFromInt(n) == BNorm(<<n % Base, (n \div Base) % Base, n \div (Base * Base)>>)

-----------------------------------------------------------------------------
(* JavaScript numbers.  A nonzero number is s * m * 2^e with s the sign    *)
(* (1 or -1), m a significand of exactly Precision bits and e an integer;  *)
(* zero has s = 0.  The representation of a value is unique, so equality   *)
(* of records is equality of numbers.  NaN (s = 2) stands for a request    *)
(* field that is present and not a finite number: Number.isFinite is false *)
(* of it and every comparison with it is false.  Undefined (s = 3) is a    *)
(* field the request leaves out.                                           *)

Precision == 53
GuardBits == 4 * LimbBits

Zero == [s |-> 0, m |-> <<>>, e |-> 0]
NaN == [s |-> 2, m |-> <<>>, e |-> 0]
Undefined == [s |-> 3, m |-> <<>>, e |-> 0]
IsFinite(a) == a.s \in {-1, 0, 1}

(* The arithmetic and the server's routes are the cases of one recursive   *)
(* operator, Run(op, x), which applies the operation named op to the       *)
(* arguments x; it is defined below, after the handlers.  Each arithmetic  *)
(* operation has a name of its own, defined by Do, under which the rest of *)
(* the model uses it.  Do evaluates the arguments once, whatever use the   *)
(* operation makes of them.                                                *)
RECURSIVE Run(_, _)
Do(op, x) == CHOOSE r \in {Run(op, v) : v \in {x}} : TRUE

\* a call of an exported function by its name: the error it throws, or its
\* value
Evaluate(function, args) == Do(function, args)

BMul(a, b) == Do("BMul", <<a, b>>)
BShl(a, n) == Do("BShl", <<a, n>>)
BShr(a, n) == Do("BShr", <<a, n>>)
\* the largest q with q * d <= cur, counted down from the estimate q
DigitFix(cur, d, q) == Do("DigitFix", <<cur, d, q>>)
\* one step of long division: cur < d * Base
Digit(cur, d) == Do("Digit", <<cur, d>>)
\* <<quotient, remainder>> of a by d, d # 0, by long division from a's
\* highest limb; rem is the remainder so far
BDivRec(a, d, i, rem) == Do("BDivRec", <<a, d, i, rem>>)
\* a and d are first scaled to set the highest bit of d's highest limb, so
\* that each digit's estimate is at most two above the digit
BDivMod(a, d) == Do("BDivMod", <<a, d>>)
\* the integer square root of a > 0 by Newton's iteration from above
BSqrtFrom(a, y) == Do("BSqrtFrom", <<a, y>>)
BSqrt(a) == Do("BSqrt", <<a>>)
\* s * m * 2^e, plus a positive amount below one unit of m when sticky,
\* rounded to the nearest number, ties to even
FRound(s, m, e, sticky) == Do("FRound", <<s, m, e, sticky>>)
Product(a, b) == Do("Product", <<a, b>>)
Sum(a, b) == Do("Sum", <<a, b>>)
\* a / b for b # 0: the quotient of the significands to 60 or 61 bits,
\* the remainder kept as the sticky bit
Quotient(a, b) == Do("Quotient", <<a, b>>)
\* Math.sqrt(a) for a >= 0: the root of the significand, scaled to an even
\* exponent, to 57 bits; an inexact root sets the sticky bit
Root(a) == Do("Root", <<a>>)
Less(a, b) == Do("Less", <<a, b>>)
FAbs(a) == Do("Abs", <<a>>)
FMax(a, b) == Do("Max", <<a, b>>)
FMin(a, b) == Do("Min", <<a, b>>)

\* the number of the integer n: |n| is below 2^31 and needs no rounding
FromInt(n) ==
    IF n = 0 THEN Zero
    ELSE LET a  == IF n < 0 THEN -n ELSE n
             sh == Precision - BitLen(a)
         IN  [s |-> IF n < 0 THEN -1 ELSE 1,
              m |-> Zeros(sh \div LimbBits) \o BMulSmall(BFromInt(a), 2 ^ (sh % LimbBits)),
              e |-> -sh]

FNeg(a) == [a EXCEPT !.s = -a.s]

\* The operations of the program text: a + b, a - b, a * b, a / b,
\* Math.sqrt, Math.abs, Math.max, Math.min and the comparisons
FAdd(a, b) == Sum(a, b)
FSub(a, b) == Sum(a, FNeg(b))
FMul(a, b) == Product(a, b)
FDiv(a, b) == Quotient(a, b)
FSqrt(a) == Root(a)
\* a comparison with NaN or undefined on either side is false
FLt(a, b) == Do("<", <<a, b>>)
FLe(a, b) == Do("<=", <<a, b>>)
FGt(a, b) == FLt(b, a)
FGe(a, b) == FLe(b, a)

\* the number a decimal literal n/d denotes (n, d exact integers)
Dec(n, d) == FDiv(FromInt(n), FromInt(d))


-----------------------------------------------------------------------------
(* Constants of the program.                                               *)

MIN_TRADE_AMOUNT == Dec(1, 100)
MAX_TRANSACTION_SIZE == FromInt(100000)
MIN_POOL_RESERVE == FromInt(100)
MAX_SLIPPAGE_TOLERANCE == Dec(5, 10)
MIN_SLIPPAGE_TOLERANCE == Dec(1, 10000)
SWAP_FEE_PERCENTAGE == Dec(3, 1000)
DEFAULT_SLIPPAGE_TOLERANCE == Dec(5, 1000)

One == FromInt(1)
Million == FromInt(1000000)

-----------------------------------------------------------------------------
(* AMM math (utils.ts).                                                    *)

\* calculateOutputAmount raises 'All amounts must be positive'
calculateOutputAmountThrows(inputAmount, inputReserve, outputReserve) ==
    FLe(inputAmount, Zero) \/ FLe(inputReserve, Zero) \/ FLe(outputReserve, Zero)

\* calculateOutputAmount that counts the input twice in the divisor
calculateOutputAmountOfTwice(inputAmount, inputReserve, outputReserve) ==
    FDiv(FMul(inputAmount, outputReserve),
         FAdd(FAdd(inputReserve, inputAmount), inputAmount))

calculateOutputAmount(inputAmount, inputReserve, outputReserve) ==
    FDiv(FMul(inputAmount, outputReserve), FAdd(inputReserve, inputAmount))

\* calculateFee paying the fee to the trader
calculateFeeAdded(inputAmount, feePercentage) ==
    LET fee == FMul(inputAmount, feePercentage)
    IN  [fee |-> fee, amountAfterFee |-> FAdd(inputAmount, fee)]

calculateFee(inputAmount, feePercentage) ==
    LET fee == FMul(inputAmount, feePercentage)
    IN  [fee |-> fee, amountAfterFee |-> FSub(inputAmount, fee)]

calculatePriceImpact(outputAmount, inputAmount, spotPrice) ==
    LET executionPrice == FDiv(outputAmount, inputAmount)
        priceImpact    == FSub(One, FDiv(executionPrice, spotPrice))
    IN  FMax(Zero, priceImpact)

calculateMinimumOutput(expectedOutput, slippageTolerance) ==
    FMul(expectedOutput, FSub(One, slippageTolerance))

isSlippageAcceptable(actualOutput, minimumOutput) ==
    FGe(actualOutput, minimumOutput)

\* calculateLiquidityShares crediting the larger of the two fractions
calculateLiquiditySharesOfLarger(ethAmount, usdcAmount, ethReserve, usdcReserve, totalShares) ==
    IF totalShares = Zero
    THEN FMax(FSqrt(FMul(ethAmount, usdcAmount)), FromInt(1000))
    ELSE FMul(FMax(FDiv(ethAmount, ethReserve), FDiv(usdcAmount, usdcReserve)),
              totalShares)

\* calculateLiquidityShares without the minimum of 1000 initial shares
calculateLiquiditySharesNoFloor(ethAmount, usdcAmount, ethReserve, usdcReserve, totalShares) ==
    IF totalShares = Zero
    THEN FSqrt(FMul(ethAmount, usdcAmount))
    ELSE FMul(FMin(FDiv(ethAmount, ethReserve), FDiv(usdcAmount, usdcReserve)),
              totalShares)

calculateLiquidityShares(ethAmount, usdcAmount, ethReserve, usdcReserve, totalShares) ==
    IF totalShares = Zero
    THEN FMax(FSqrt(FMul(ethAmount, usdcAmount)), FromInt(1000))
    ELSE LET ethFraction    == FDiv(ethAmount, ethReserve)
             usdcFraction   == FDiv(usdcAmount, usdcReserve)
             fractionOfPool == FMin(ethFraction, usdcFraction)
         IN  FMul(fractionOfPool, totalShares)

calculateWithdrawalAmounts(sharesBurned, ethReserve, usdcReserve, totalShares) ==
    LET ownershipFraction == FDiv(sharesBurned, totalShares)
    IN  [ethAmount  |-> FMul(ethReserve, ownershipFraction),
         usdcAmount |-> FMul(usdcReserve, ownershipFraction)]

\* calculateSpotPrice raises 'Cannot calculate price with zero ETH reserve'
calculateSpotPriceThrows(usdcReserve, ethReserve) == ethReserve = Zero

calculateSpotPrice(usdcReserve, ethReserve) == FDiv(usdcReserve, ethReserve)

-----------------------------------------------------------------------------
(* Validation (validation.ts).  A result is the ValidationError object:    *)
(* valid, and the kind of the error message ("" when there is none).       *)

Valid == [valid |-> TRUE, error |-> ""]
Invalid(why) == [valid |-> FALSE, error |-> why]

\* validateSwapAmount with the maximum itself refused
validateSwapAmountBelowMaximum(amount) ==
    IF ~IsFinite(amount) THEN Invalid("Invalid amount")
    ELSE IF FLe(amount, Zero) THEN Invalid("Invalid amount")
    ELSE IF FLt(amount, MIN_TRADE_AMOUNT) THEN Invalid("Amount too small")
    ELSE IF FGe(amount, MAX_TRANSACTION_SIZE) THEN Invalid("Amount too large")
    ELSE Valid

validateSwapAmount(amount) ==
    IF ~IsFinite(amount) THEN Invalid("Invalid amount")
    ELSE IF FLe(amount, Zero) THEN Invalid("Invalid amount")
    ELSE IF FLt(amount, MIN_TRADE_AMOUNT) THEN Invalid("Amount too small")
    ELSE IF FGt(amount, MAX_TRANSACTION_SIZE) THEN Invalid("Amount too large")
    ELSE Valid

\* the ratio test taken relative to the USDC side
NotProportionalOfUsdc(ethAmount, usdcAmount, currentEthReserve, currentUsdcReserve) ==
    LET ethRatio  == FDiv(ethAmount, currentEthReserve)
        usdcRatio == FDiv(usdcAmount, currentUsdcReserve)
        tolerance == Dec(1, 100)
    IN  FGt(FDiv(FAbs(FSub(ethRatio, usdcRatio)), usdcRatio), tolerance)

\* the ratio test of validateAddLiquidity, made when both reserves are positive
NotProportional(ethAmount, usdcAmount, currentEthReserve, currentUsdcReserve) ==
    LET ethRatio  == FDiv(ethAmount, currentEthReserve)
        usdcRatio == FDiv(usdcAmount, currentUsdcReserve)
        tolerance == Dec(1, 100)
    IN  FGt(FDiv(FAbs(FSub(ethRatio, usdcRatio)), ethRatio), tolerance)

validateAddLiquidity(ethAmount, usdcAmount, currentEthReserve, currentUsdcReserve) ==
    IF ~validateSwapAmount(ethAmount).valid THEN Invalid("ETH")
    ELSE IF ~validateSwapAmount(usdcAmount).valid THEN Invalid("USDC")
    ELSE IF /\ FGt(currentEthReserve, Zero)
            /\ FGt(currentUsdcReserve, Zero)
            /\ NotProportional(ethAmount, usdcAmount, currentEthReserve, currentUsdcReserve)
         THEN Invalid("Amounts not proportional")
    ELSE IF FLt(FAdd(currentEthReserve, ethAmount), MIN_POOL_RESERVE)
         THEN Invalid("Pool ETH would drop below minimum")
    ELSE IF FLt(FAdd(currentUsdcReserve, usdcAmount), MIN_POOL_RESERVE)
         THEN Invalid("Pool USDC would drop below minimum")
    ELSE Valid

\* validateWithdrawLiquidity without its two reserve floors
validateWithdrawLiquidityNoFloor(shares, ethAmount, usdcAmount, currentEthReserve, currentUsdcReserve) ==
    IF ~IsFinite(shares) THEN Invalid("Invalid shares")
    ELSE IF FLe(shares, Zero) THEN Invalid("Invalid shares")
    ELSE IF FGt(shares, currentEthReserve) THEN Invalid("Insufficient shares")
    ELSE Valid

validateWithdrawLiquidity(shares, ethAmount, usdcAmount, currentEthReserve, currentUsdcReserve) ==
    IF ~IsFinite(shares) THEN Invalid("Invalid shares")
    ELSE IF FLe(shares, Zero) THEN Invalid("Invalid shares")
    ELSE IF FGt(shares, currentEthReserve) THEN Invalid("Insufficient shares")
    ELSE IF FLt(FSub(currentEthReserve, ethAmount), MIN_POOL_RESERVE)
         THEN Invalid("Withdrawal would deplete pool ETH")
    ELSE IF FLt(FSub(currentUsdcReserve, usdcAmount), MIN_POOL_RESERVE)
         THEN Invalid("Withdrawal would deplete pool USDC")
    ELSE Valid

\* validateSlippageTolerance without the minimum
validateSlippageToleranceNoMinimum(slippageTolerance) ==
    IF ~IsFinite(slippageTolerance) THEN Invalid("Invalid slippage tolerance")
    ELSE IF FLt(slippageTolerance, Zero) THEN Invalid("Invalid slippage tolerance")
    ELSE IF FGt(slippageTolerance, MAX_SLIPPAGE_TOLERANCE)
         THEN Invalid("Slippage tolerance too loose")
    ELSE Valid

validateSlippageTolerance(slippageTolerance) ==
    IF ~IsFinite(slippageTolerance) THEN Invalid("Invalid slippage tolerance")
    ELSE IF FLt(slippageTolerance, Zero) THEN Invalid("Invalid slippage tolerance")
    ELSE IF FLt(slippageTolerance, MIN_SLIPPAGE_TOLERANCE)
         THEN Invalid("Slippage tolerance too strict")
    ELSE IF FGt(slippageTolerance, MAX_SLIPPAGE_TOLERANCE)
         THEN Invalid("Slippage tolerance too loose")
    ELSE Valid

\* validatePriceImpact warning above 1%, the threshold index.ts declares
validatePriceImpactAboveOnePercent(priceImpact) ==
    LET warningThreshold == Dec(1, 100)
    IN  IF FLt(priceImpact, Zero) \/ FGt(priceImpact, One)
        THEN [valid |-> FALSE, warning |-> FALSE]
        ELSE IF FGt(priceImpact, warningThreshold)
             THEN [valid |-> TRUE, warning |-> TRUE]
        ELSE [valid |-> TRUE, warning |-> FALSE]

\* the result's warning is kept as whether there is one
validatePriceImpact(priceImpact) ==
    LET warningThreshold == Dec(5, 100)
    IN  IF FLt(priceImpact, Zero) \/ FGt(priceImpact, One)
        THEN [valid |-> FALSE, warning |-> FALSE]
        ELSE IF FGt(priceImpact, warningThreshold)
             THEN [valid |-> TRUE, warning |-> TRUE]
        ELSE [valid |-> TRUE, warning |-> FALSE]

validateTokenType(token) == token = "ETH" \/ token = "USDC"

\* validateSwapPair without the test for a token against itself
validateSwapPairOfAny(inputToken, outputToken) ==
    IF ~validateTokenType(inputToken) THEN Invalid("Invalid input token")
    ELSE IF ~validateTokenType(outputToken) THEN Invalid("Invalid output token")
    ELSE Valid

validateSwapPair(inputToken, outputToken) ==
    IF ~validateTokenType(inputToken) THEN Invalid("Invalid input token")
    ELSE IF ~validateTokenType(outputToken) THEN Invalid("Invalid output token")
    ELSE IF inputToken = outputToken THEN Invalid("Cannot swap for itself")
    ELSE Valid

-----------------------------------------------------------------------------
(* Pool state management (pool.ts).  An engine operation yields the pool   *)
(* it leaves behind and the error it raised ("" when it returned).         *)

SeedPool ==
    [ethReserve      |-> Million,
     usdcReserve     |-> Million,
     totalShares     |-> Million,
     accumulatedFees |-> [eth |-> Zero, usdc |-> Zero],
     k               |-> FMul(Million, Million)]

Returned(p) == [pool |-> p, error |-> ""]
Raised(p, error) == [pool |-> p, error |-> error]

\* the literal 5e-15
FiveEMinus15 == FDiv(FromInt(5), FMul(FromInt(10000000), FromInt(100000000)))

\* the tolerance of executeSwap's constant-product check
Epsilon(k) == FMax(Dec(1, 1000), FMul(FiveEMinus15, k))

\* pool.ethReserve += amountIn, or pool.usdcReserve
AddToReserve(p, tokenType, amount) ==
    IF tokenType = "ETH"
    THEN [p EXCEPT !.ethReserve = FAdd(p.ethReserve, amount)]
    ELSE [p EXCEPT !.usdcReserve = FAdd(p.usdcReserve, amount)]

\* pool.ethReserve -= amountOut, or pool.usdcReserve
SubtractFromReserve(p, tokenType, amount) ==
    IF tokenType = "ETH"
    THEN [p EXCEPT !.ethReserve = FSub(p.ethReserve, amount)]
    ELSE [p EXCEPT !.usdcReserve = FSub(p.usdcReserve, amount)]

\* AccumulateFee counting the fee under the other asset
AccumulateFeeOfOther(p, tokenType, feeAmount) ==
    IF tokenType = "ETH"
    THEN [p EXCEPT !.accumulatedFees.usdc = FAdd(p.accumulatedFees.usdc, feeAmount)]
    ELSE [p EXCEPT !.accumulatedFees.eth = FAdd(p.accumulatedFees.eth, feeAmount)]

\* pool.accumulatedFees.eth += feeAmount, or .usdc
AccumulateFee(p, tokenType, feeAmount) ==
    IF tokenType = "ETH"
    THEN [p EXCEPT !.accumulatedFees.eth = FAdd(p.accumulatedFees.eth, feeAmount)]
    ELSE [p EXCEPT !.accumulatedFees.usdc = FAdd(p.accumulatedFees.usdc, feeAmount)]

\* CheckSwap without the constant-product check
CheckSwapNoProductCheck(p) ==
    LET newK == FMul(p.ethReserve, p.usdcReserve)
    IN  IF FLe(p.ethReserve, Zero) \/ FLe(p.usdcReserve, Zero)
        THEN Raised(p, "Swap would break the pool")
        ELSE IF FGt(newK, p.k) THEN Returned([p EXCEPT !.k = newK])
        ELSE Returned(p)

\* CheckSwap setting k to the new product whether or not it grew
CheckSwapSetsK(p) ==
    LET newK    == FMul(p.ethReserve, p.usdcReserve)
        epsilon == Epsilon(p.k)
    IN  IF FLe(p.ethReserve, Zero) \/ FLe(p.usdcReserve, Zero)
        THEN Raised(p, "Swap would break the pool")
        ELSE IF FLt(FAdd(newK, epsilon), p.k)
             THEN Raised(p, "Swap violates constant product formula")
        ELSE Returned([p EXCEPT !.k = newK])

\* executeSwap from its checks on: p holds the updated reserves and fees
CheckSwap(p) ==
    LET newK    == FMul(p.ethReserve, p.usdcReserve)
        epsilon == Epsilon(p.k)
    IN  IF FLe(p.ethReserve, Zero) \/ FLe(p.usdcReserve, Zero)
        THEN Raised(p, "Swap would break the pool")
        ELSE IF FLt(FAdd(newK, epsilon), p.k)
             THEN Raised(p, "Swap violates constant product formula")
        ELSE IF FGt(newK, p.k) THEN Returned([p EXCEPT !.k = newK])
        ELSE Returned(p)

executeSwap(p, inputTokenType, outputTokenType, amountIn, amountOut, feeAmount) ==
    CheckSwap(AccumulateFee(SubtractFromReserve(AddToReserve(p, inputTokenType, amountIn),
                                                outputTokenType, amountOut),
                            inputTokenType, feeAmount))

\* addLiquidity that issues the shares without counting them in totalShares
addLiquidityUncounted(p, ethAmount, usdcAmount, sharesIssued) ==
    LET e == FAdd(p.ethReserve, ethAmount)
        u == FAdd(p.usdcReserve, usdcAmount)
    IN  Returned([p EXCEPT !.ethReserve = e, !.usdcReserve = u, !.k = FMul(e, u)])

addLiquidity(p, ethAmount, usdcAmount, sharesIssued) ==
    LET e == FAdd(p.ethReserve, ethAmount)
        u == FAdd(p.usdcReserve, usdcAmount)
    IN  Returned([p EXCEPT !.ethReserve = e,
                           !.usdcReserve = u,
                           !.totalShares = FAdd(p.totalShares, sharesIssued),
                           !.k = FMul(e, u)])

\* withdrawLiquidity that pays the accumulated fees out with the reserves
withdrawLiquidityPayingFees(p, ethAmount, usdcAmount, sharesBurned) ==
    LET e  == FSub(p.ethReserve, ethAmount)
        u  == FSub(p.usdcReserve, usdcAmount)
        p1 == [p EXCEPT !.ethReserve = e,
                        !.usdcReserve = u,
                        !.totalShares = FSub(p.totalShares, sharesBurned),
                        !.accumulatedFees = [eth |-> Zero, usdc |-> Zero]]
    IN  IF FLe(e, Zero) \/ FLe(u, Zero)
        THEN Raised(p1, "Withdrawal would deplete reserves")
        ELSE Returned([p1 EXCEPT !.k = FMul(e, u)])

withdrawLiquidity(p, ethAmount, usdcAmount, sharesBurned) ==
    LET e  == FSub(p.ethReserve, ethAmount)
        u  == FSub(p.usdcReserve, usdcAmount)
        p1 == [p EXCEPT !.ethReserve = e,
                        !.usdcReserve = u,
                        !.totalShares = FSub(p.totalShares, sharesBurned)]
    IN  IF FLe(e, Zero) \/ FLe(u, Zero)
        THEN Raised(p1, "Withdrawal would deplete reserves")
        ELSE Returned([p1 EXCEPT !.k = FMul(e, u)])

\* validateShareAmount without the bound of pool.totalShares
validateShareAmountUnbounded(p, shares) ==
    IsFinite(shares) /\ FGt(shares, Zero)

\* shares > 0 && shares <= pool.totalShares, false of NaN
validateShareAmount(p, shares) ==
    IsFinite(shares) /\ FGt(shares, Zero) /\ FLe(shares, p.totalShares)

\* the pool with the fees it has accumulated kept
resetPoolKeepingFees(p) ==
    Returned([SeedPool EXCEPT !.accumulatedFees = p.accumulatedFees])

resetPool(p) ==
    Returned([ethReserve      |-> Million,
              usdcReserve     |-> Million,
              totalShares     |-> Million,
              accumulatedFees |-> [eth |-> Zero, usdc |-> Zero],
              k               |-> FMul(Million, Million)])

-----------------------------------------------------------------------------
(* The HTTP handlers (index.ts).  A handler yields the pool it leaves      *)
(* behind, the response status, the error of an error response (or the     *)
(* warning of a quote) and the quantities it computed (<<>> before they    *)
(* exist).  A raised error is caught by the handler's try/catch and        *)
(* answered 500.                                                           *)

Response(p, status, error, out) ==
    [pool |-> p, status |-> status, error |-> error, out |-> out]

\* req.body's slippageTolerance, DEFAULT_SLIPPAGE_TOLERANCE when missing
Tolerance(req) ==
    IF req.slippageTolerance = Undefined THEN DEFAULT_SLIPPAGE_TOLERANCE
    ELSE req.slippageTolerance

\* The computation shared by /quote, /buy and /sell once the request is
\* valid: the fee, the output, the price impact and the minimum output
SwapQuantities(amount, inputReserve, outputReserve, tolerance) ==
    LET f              == calculateFee(amount, SWAP_FEE_PERCENTAGE)
        expectedOutput == calculateOutputAmount(f.amountAfterFee, inputReserve, outputReserve)
        spotPrice      == calculateSpotPrice(outputReserve, inputReserve)
        priceImpact    == calculatePriceImpact(expectedOutput, f.amountAfterFee, spotPrice)
        minimumOutput  == calculateMinimumOutput(expectedOutput, tolerance)
    IN  [fee |-> f.fee, amountAfterFee |-> f.amountAfterFee,
         expectedOutput |-> expectedOutput, priceImpact |-> priceImpact,
         minimumOutput |-> minimumOutput]

\* calculateOutputAmount or calculateSpotPrice raises in that computation
SwapQuantitiesThrow(amount, inputReserve, outputReserve) ==
    \/ calculateOutputAmountThrows(calculateFee(amount, SWAP_FEE_PERCENTAGE).amountAfterFee,
                                   inputReserve, outputReserve)
    \/ calculateSpotPriceThrows(outputReserve, inputReserve)

\* finalMinimumOutput without the caller's minimum
FinalMinimumOutputOfTolerance(minimumOutput, min) == minimumOutput

\* Math.max(minimumOutput, min || 0): a missing or NaN minimum counts as 0
FinalMinimumOutput(minimumOutput, min) ==
    FMax(minimumOutput, IF IsFinite(min) THEN min ELSE Zero)

\* what a response reports: the input after the fee, the output, the fee,
\* the price impact and the minimum output the output was held against
Out(q, minimum) == <<q.amountAfterFee, q.expectedOutput, q.fee, q.priceImpact, minimum>>

\* a /quote that executes the swap it prices
quoteExecuting(p, req) ==
    LET pairValidation     == validateSwapPair(req.inputToken, req.outputToken)
        amountValidation   == validateSwapAmount(req.amount)
        slippageValidation == validateSlippageTolerance(Tolerance(req))
        inputReserve       == IF req.inputToken = "ETH" THEN p.ethReserve ELSE p.usdcReserve
        outputReserve      == IF req.inputToken = "ETH" THEN p.usdcReserve ELSE p.ethReserve
        q == SwapQuantities(req.amount, inputReserve, outputReserve, Tolerance(req))
    IN  IF ~pairValidation.valid THEN Response(p, 400, pairValidation.error, <<>>)
        ELSE IF ~amountValidation.valid THEN Response(p, 400, amountValidation.error, <<>>)
        ELSE IF ~slippageValidation.valid THEN Response(p, 400, slippageValidation.error, <<>>)
        ELSE IF SwapQuantitiesThrow(req.amount, inputReserve, outputReserve)
             THEN Response(p, 500, "raised", <<>>)
        ELSE Response(executeSwap(p, req.inputToken, req.outputToken,
                                  q.amountAfterFee, q.expectedOutput, q.fee).pool,
                      200,
                      IF validatePriceImpact(q.priceImpact).warning THEN "warning" ELSE "",
                      Out(q, q.minimumOutput))

\* POST /quote
quote(p, req) ==
    LET pairValidation     == validateSwapPair(req.inputToken, req.outputToken)
        amountValidation   == validateSwapAmount(req.amount)
        slippageValidation == validateSlippageTolerance(Tolerance(req))
        inputReserve       == IF req.inputToken = "ETH" THEN p.ethReserve ELSE p.usdcReserve
        outputReserve      == IF req.inputToken = "ETH" THEN p.usdcReserve ELSE p.ethReserve
        q == SwapQuantities(req.amount, inputReserve, outputReserve, Tolerance(req))
    IN  IF ~pairValidation.valid THEN Response(p, 400, pairValidation.error, <<>>)
        ELSE IF ~amountValidation.valid THEN Response(p, 400, amountValidation.error, <<>>)
        ELSE IF ~slippageValidation.valid THEN Response(p, 400, slippageValidation.error, <<>>)
        ELSE IF SwapQuantitiesThrow(req.amount, inputReserve, outputReserve)
             THEN Response(p, 500, "raised", <<>>)
        ELSE Response(p, 200,
                      IF validatePriceImpact(q.priceImpact).warning THEN "warning" ELSE "",
                      Out(q, q.minimumOutput))

\* /buy and /sell after validation: the slippage check and the engine call
SwapExecution(p, inputToken, outputToken, q, min) ==
    LET finalMinimumOutput == FinalMinimumOutput(q.minimumOutput, min)
        swap == executeSwap(p, inputToken, outputToken,
                            q.amountAfterFee, q.expectedOutput, q.fee)
    IN  IF ~isSlippageAcceptable(q.expectedOutput, finalMinimumOutput)
        THEN Response(p, 400, "Slippage exceeded", Out(q, finalMinimumOutput))
        ELSE IF swap.error # ""
             THEN Response(swap.pool, 500, swap.error, Out(q, finalMinimumOutput))
        ELSE Response(swap.pool, 200, "", Out(q, finalMinimumOutput))

\* POST /buy
buy(p, req) ==
    LET amountValidation   == validateSwapAmount(req.amount)
        slippageValidation == validateSlippageTolerance(Tolerance(req))
        q == SwapQuantities(req.amount, p.ethReserve, p.usdcReserve, Tolerance(req))
    IN  IF ~amountValidation.valid THEN Response(p, 400, amountValidation.error, <<>>)
        ELSE IF ~slippageValidation.valid THEN Response(p, 400, slippageValidation.error, <<>>)
        ELSE IF SwapQuantitiesThrow(req.amount, p.ethReserve, p.usdcReserve)
             THEN Response(p, 500, "raised", <<>>)
        ELSE SwapExecution(p, "ETH", "USDC", q, req.minOutput)

\* POST /sell
sell(p, req) ==
    LET amountValidation   == validateSwapAmount(req.amount)
        slippageValidation == validateSlippageTolerance(Tolerance(req))
        q == SwapQuantities(req.amount, p.usdcReserve, p.ethReserve, Tolerance(req))
    IN  IF ~amountValidation.valid THEN Response(p, 400, amountValidation.error, <<>>)
        ELSE IF ~slippageValidation.valid THEN Response(p, 400, slippageValidation.error, <<>>)
        ELSE IF SwapQuantitiesThrow(req.amount, p.usdcReserve, p.ethReserve)
             THEN Response(p, 500, "raised", <<>>)
        ELSE SwapExecution(p, "USDC", "ETH", q, req.minOutput)

\* POST /add-liquidity
addLiquidityHandler(p, req) ==
    LET validation_result ==
            Evaluate("validateAddLiquidity",
                     <<req.ethAmount, req.usdcAmount, p.ethReserve, p.usdcReserve>>).value
        sharesEarned == calculateLiquidityShares(req.ethAmount, req.usdcAmount, p.ethReserve,
                                                 p.usdcReserve, p.totalShares)
    IN  IF ~validation_result.valid THEN Response(p, 400, validation_result.error, <<>>)
        ELSE Response(addLiquidity(p, req.ethAmount, req.usdcAmount, sharesEarned).pool,
                      200, "", <<req.ethAmount, req.usdcAmount, sharesEarned>>)

\* a Withdrawal that withdraws before it validates
WithdrawalBeforeValidation(p, sharesToBurn) ==
    LET w == calculateWithdrawalAmounts(sharesToBurn, p.ethReserve,
                                        p.usdcReserve, p.totalShares)
        validation_result == validateWithdrawLiquidity(sharesToBurn, w.ethAmount, w.usdcAmount,
                                                       p.ethReserve, p.usdcReserve)
        out == <<w.ethAmount, w.usdcAmount, sharesToBurn>>
        withdrawn == withdrawLiquidity(p, w.ethAmount, w.usdcAmount, sharesToBurn)
    IN  IF withdrawn.error # ""
        THEN Response(withdrawn.pool, 500, withdrawn.error, out)
        ELSE IF ~validation_result.valid
             THEN Response(withdrawn.pool, 400, validation_result.error, out)
        ELSE Response(withdrawn.pool, 200, "", out)

\* /remove-liquidity once the share amount is valid
Withdrawal(p, sharesToBurn) ==
    LET w == calculateWithdrawalAmounts(sharesToBurn, p.ethReserve,
                                        p.usdcReserve, p.totalShares)
        validation_result == validateWithdrawLiquidity(sharesToBurn, w.ethAmount, w.usdcAmount,
                                                       p.ethReserve, p.usdcReserve)
        out == <<w.ethAmount, w.usdcAmount, sharesToBurn>>
        withdrawn == withdrawLiquidity(p, w.ethAmount, w.usdcAmount, sharesToBurn)
    IN  IF ~validation_result.valid THEN Response(p, 400, validation_result.error, out)
        ELSE IF withdrawn.error # ""
             THEN Response(withdrawn.pool, 500, withdrawn.error, out)
        ELSE Response(withdrawn.pool, 200, "", out)

\* POST /remove-liquidity
removeLiquidityHandler(p, req) ==
    IF ~validateShareAmount(p, req.sharesToBurn)
    THEN Response(p, 400, "Invalid shares", <<>>)
    ELSE Withdrawal(p, req.sharesToBurn)

-----------------------------------------------------------------------------
(* The values the functions are called with.                               *)

\* the number a * 2^k
Shifted(a, k) == [a EXCEPT !.e = @ + k]

\* the next number above a positive number a
NextUp(a) ==
    IF \A i \in DOMAIN a.m : a.m[i] = (IF i = Len(a.m) THEN 2 ^ (Precision % LimbBits) - 1
                                       ELSE Base - 1)
    THEN [FromInt(1) EXCEPT !.e = @ + a.e + Precision]
    ELSE [a EXCEPT !.m = BAdd(a.m, <<1>>)]

\* The request bodies clients send
SwapRequest(amount, minOutput, slippageTolerance) ==
    [amount |-> amount, minOutput |-> minOutput, slippageTolerance |-> slippageTolerance]

SwapRequests ==
    { SwapRequest(FromInt(10), Undefined, Undefined),
      SwapRequest(FromInt(100000), Undefined, Undefined),
      SwapRequest(Dec(1, 100), Undefined, Dec(1, 10000)),
      SwapRequest(Dec(1, 1000), Undefined, Undefined),
      SwapRequest(Dec(10000001, 100), Undefined, Undefined),
      SwapRequest(NaN, Undefined, Undefined),
      SwapRequest(FromInt(10), Undefined, Dec(6, 10)),
      SwapRequest(FromInt(10), Undefined, Zero),
      SwapRequest(FromInt(10), FromInt(10), Undefined),
      SwapRequest(FromInt(10), FromInt(9), Undefined) }

QuoteRequests ==
    { [inputToken |-> t[1], outputToken |-> t[2], amount |-> a, slippageTolerance |-> Undefined] :
        t \in {<<"ETH", "USDC">>, <<"USDC", "ETH">>, <<"ETH", "ETH">>, <<"BTC", "USDC">>},
        a \in {FromInt(10), FromInt(100000), Dec(1, 1000)} }

AddLiquidityRequests ==
    { [ethAmount |-> a[1], usdcAmount |-> a[2]] :
        a \in { <<FromInt(100), FromInt(100)>>,
                <<FromInt(100000), FromInt(100000)>>,
                <<FromInt(4), FromInt(4)>>,
                <<FromInt(123), FromInt(123)>>,
                <<FromInt(1000), FromInt(1009)>>,
                <<FromInt(100), FromInt(200)>>,
                <<Dec(1, 1000), Dec(1, 1000)>>,
                <<FromInt(100), NaN>> } }

RemoveLiquidityRequests ==
    { [sharesToBurn |-> x] :
        x \in { FromInt(100), FromInt(500000), FromInt(950000), FromInt(999900),
                FromInt(1000000), FromInt(2000000), Zero, NaN } }

\* the bodies sent to a route
Bodies(route) ==
    CASE route = "/quote" -> QuoteRequests
      [] route = "/buy" -> SwapRequests
      [] route = "/sell" -> SwapRequests
      [] route = "/add-liquidity" -> AddLiquidityRequests
      [] route = "/remove-liquidity" -> RemoveLiquidityRequests

\* 1e9, a thousand times the seed pool's reserves
Billion == FromInt(1000000000)

TenTo17 == FMul(FromInt(100000000), FromInt(1000000000))

\* <<amountIn, a larger amountIn>>: within the validation bounds, adjacent
\* numbers, amounts far above any reserve, and an amount of 0
AmountPairs ==
    { <<Dec(1, 100), One>>,
      <<One, FromInt(10)>>,
      <<FromInt(10), FromInt(20)>>,
      <<FromInt(10), FromInt(100000)>>,
      <<FromInt(5000), NextUp(FromInt(5000))>>,
      <<TenTo17, Shifted(TenTo17, 1)>>,
      <<Zero, One>> }

\* <<inputReserve, outputReserve>>
ReservePairs ==
    { <<Million, Million>>,
      <<One, One>>,
      <<FromInt(100), Million>>,
      <<Million, FromInt(100)>>,
      <<Dec(100000997, 100), FromInt(999990)>> }

\* calculateOutputAmount at two amounts against the same reserves
OutputAmountInputs ==
    { <<a[1], a[2], r[1], r[2]>> : a \in AmountPairs, r \in ReservePairs }

\* <<feePercentage, a larger feePercentage>>
RatePairs ==
    { <<SWAP_FEE_PERCENTAGE, Dec(4, 1000)>>,
      <<Dec(1, 1000), SWAP_FEE_PERCENTAGE>>,
      <<SWAP_FEE_PERCENTAGE, NextUp(SWAP_FEE_PERCENTAGE)>>,
      <<Zero, SWAP_FEE_PERCENTAGE>> }

\* calculateFee of one amount at two rates
FeeInputs ==
    { <<a, r[1], r[2]>> :
        a \in {Dec(1, 100), One, FromInt(3), FromInt(10), Dec(1819, 100), FromInt(100000)},
        r \in RatePairs }

\* the handlers' calculation of a swap of an amount and of half of it
\* against the same reserves: <<amount, half of it, inputReserve,
\* outputReserve>>, the amount and its half within the validation bounds,
\* the reserves those of ReservePairs and larger ones, up to 2^50, which is
\* about 1.1e15
SwapInputs ==
    { <<a, Shifted(a, -1), r[1], r[2]>> :
        a \in {Dec(2, 100), One, FromInt(10), FromInt(100000)},
        r \in (ReservePairs \ {<<One, One>>})
                \cup { <<Billion, Billion>>,
                       <<Billion, FromInt(100)>>,
                       <<Shifted(One, 47), Shifted(One, 47)>>,
                       <<Shifted(One, 50), Shifted(One, 50)>> } }

\* <<ethAmount, usdcAmount>> of a deposit: proportional to a pool of equal
\* reserves or not, and with a product below, at and above 1000 * 1000
DepositPairs ==
    { <<FromInt(100), FromInt(100)>>,
      <<FromInt(100), FromInt(300)>>,
      <<FromInt(7), FromInt(3)>>,
      <<Dec(1, 100), FromInt(100000)>>,
      <<One, One>>,
      <<FromInt(999), FromInt(1001)>>,
      <<FromInt(1000), FromInt(1000)>>,
      <<FromInt(10), FromInt(100000)>>,
      <<FromInt(1001), FromInt(1000)>>,
      <<FromInt(100000), FromInt(100000)>> }

\* <<ethReserve, usdcReserve, totalShares>>: the empty pool, the seed pool,
\* the pool after a /buy of 10 ETH, and a pool of unequal reserves
SharePools ==
    { <<Zero, Zero, Zero>>,
      <<Million, Million, Million>>,
      <<FromInt(1000010), Dec(99999003, 100), Million>>,
      <<FromInt(500), FromInt(1000000000), FromInt(707107)>> }

\* calculateLiquidityShares of a deposit into a pool
ShareInputs ==
    { <<a[1], a[2], r[1], r[2], r[3]>> : a \in DepositPairs, r \in SharePools }

Calculations ==
    { <<"calculateOutputAmount", x>> : x \in OutputAmountInputs }
        \cup { <<"calculateFee", x>> : x \in FeeInputs }
        \cup { <<"calculateLiquidityShares", x>> : x \in ShareInputs }
        \cup { <<"SwapQuantities", x>> : x \in SwapInputs }

\* the next number below a positive number a whose significand is not a
\* power of two
NextDown(a) == [a EXCEPT !.m = BSub(a.m, <<1>>)]

\* amounts on both sides of each bound of validateSwapAmount, and values
\* that are not finite numbers
AmountValues ==
    { NaN, Undefined, FromInt(-1), Zero,
      Dec(1, 1000), NextDown(MIN_TRADE_AMOUNT), MIN_TRADE_AMOUNT,
      NextUp(MIN_TRADE_AMOUNT), One, FromInt(5000),
      NextDown(MAX_TRANSACTION_SIZE), MAX_TRANSACTION_SIZE,
      NextUp(MAX_TRANSACTION_SIZE), Billion }

\* <<ethAmount, usdcAmount>>: in the ratio of a pool of equal reserves, just
\* inside and just outside 1% of it on either side, and far from it
ProportionPairs ==
    { <<FromInt(100), FromInt(100)>>,
      <<FromInt(10), FromInt(10)>>,
      <<FromInt(100), FromInt(101)>>,
      <<FromInt(101), FromInt(100)>>,
      <<FromInt(99), FromInt(100)>>,
      <<FromInt(100), FromInt(99)>>,
      <<Dec(99005, 100), FromInt(1000)>>,
      <<FromInt(1000), Dec(99005, 100)>>,
      <<FromInt(1000), FromInt(1009)>>,
      <<FromInt(1000), FromInt(1011)>>,
      <<FromInt(100), FromInt(200)>>,
      <<Dec(5, 100), FromInt(100000)>>,
      <<Dec(5, 100), FromInt(99500)>>,
      <<Dec(1, 1000), Dec(1, 1000)>>,
      <<FromInt(100), NaN>> }

\* <<currentEthReserve, currentUsdcReserve>>
CurrentReserves ==
    { <<Million, Million>>,
      <<FromInt(1000010), Dec(99999003, 100)>>,
      <<FromInt(500), Billion>>,
      <<FromInt(50), FromInt(50)>>,
      <<Zero, Zero>> }

ToleranceValues ==
    { NaN, FromInt(-1), Zero, Dec(5, 100000), NextDown(MIN_SLIPPAGE_TOLERANCE),
      MIN_SLIPPAGE_TOLERANCE, DEFAULT_SLIPPAGE_TOLERANCE, Dec(1, 10),
      MAX_SLIPPAGE_TOLERANCE, NextUp(MAX_SLIPPAGE_TOLERANCE), Dec(6, 10), One }

ImpactValues ==
    { NaN, FromInt(-1), Dec(-1, 1000000), Zero, Dec(1, 100), Dec(3, 100),
      NextDown(Dec(5, 100)), Dec(5, 100), NextUp(Dec(5, 100)), Dec(9, 100),
      Dec(1, 2), One, NextUp(One), FromInt(2) }

TokenValues == {"ETH", "USDC", "BTC", "eth", ""}

\* req.body of single requests: <<inputToken, outputToken, amount,
\* slippageTolerance>> of /quote, <<amount, min, slippageTolerance>> of
\* /buy and /sell
QuoteBodies ==
    { <<t, u, FromInt(10), Undefined>> : t \in TokenValues, u \in TokenValues }
        \cup { <<"ETH", "USDC", a, Undefined>> :
                  a \in {Dec(1, 100), FromInt(1000), FromInt(50000), FromInt(60000),
                         MAX_TRANSACTION_SIZE} }
        \cup { <<"USDC", "ETH", FromInt(10), v>> : v \in ToleranceValues }

SwapBodies ==
    { <<FromInt(10), Undefined, v>> : v \in ToleranceValues \cup {Undefined} }

Validations ==
    { <<"validateSwapAmount", <<a>> >> : a \in AmountValues }
        \cup { <<"validateAddLiquidity", <<a[1], a[2], r[1], r[2]>> >> :
                  a \in ProportionPairs, r \in CurrentReserves }
        \cup { <<"validateSlippageTolerance", <<v>> >> : v \in ToleranceValues }
        \cup { <<"validatePriceImpact", <<v>> >> : v \in ImpactValues }
        \cup { <<"validateSwapPair", <<t, u>> >> : t \in TokenValues, u \in TokenValues }
        \cup { <<"/quote", b>> : b \in QuoteBodies }
        \cup { <<route, b>> : route \in {"/buy", "/sell"}, b \in SwapBodies }

-----------------------------------------------------------------------------
(* The operations by name: the arithmetic of numbers, the pool engine's    *)
(* exported functions, then the routes.                                    *)

Run(op, x) ==
    CASE op = "BMul" ->
        LET a == x[1]
            b == x[2]
        IN  IF a = <<>> \/ b = <<>> THEN <<>>
            ELSE LET rest == BMul(a, Tail(b))
                 IN  BAdd(BMulSmall(a, Head(b)),
                          IF rest = <<>> THEN rest ELSE <<0>> \o rest)
      [] op = "BShl" ->
        LET a == x[1]
            n == x[2]
        IN  IF a = <<>> THEN a
            ELSE Zeros(n \div LimbBits) \o BMulSmall(a, 2 ^ (n % LimbBits))
      [] op = "BShr" ->
        LET a    == x[1]
            n    == x[2]
            drop == n \div LimbBits
            r    == n % LimbBits
            p    == 2 ^ r
            q    == 2 ^ (LimbBits - r)
            t    == IF drop >= Len(a) THEN <<>> ELSE SubSeq(a, drop + 1, Len(a))
        IN  BNorm([i \in 1..Len(t) |->
                     (t[i] \div p) + (IF i < Len(t) THEN (t[i + 1] % p) * q ELSE 0)])
      [] op = "DigitFix" ->
        LET cur == x[1]
            d   == x[2]
            q   == x[3]
        IN  IF BCmp(BMulSmall(d, q), cur) > 0 THEN DigitFix(cur, d, q - 1) ELSE q
      [] op = "Digit" ->
        LET cur == x[1]
            d   == x[2]
            n   == Len(d)
            top == IF Len(cur) > n THEN cur[n + 1] * Base + cur[n]
                   ELSE IF Len(cur) = n THEN cur[n]
                   ELSE 0
            est == top \div d[n]
        IN  DigitFix(cur, d, IF est > Base - 1 THEN Base - 1 ELSE est)
      [] op = "BDivRec" ->
        LET a   == x[1]
            d   == x[2]
            i   == x[3]
            rem == x[4]
        IN  IF i = 0 THEN <<<<>>, rem>>
            ELSE LET cur  == BNorm(<<a[i]>> \o rem)
                     q    == Digit(cur, d)
                     r    == BSub(cur, BMulSmall(d, q))
                     rest == BDivRec(a, d, i - 1, r)
                 IN  <<rest[1] \o <<q>>, rest[2]>>
      [] op = "BDivMod" ->
        LET a  == x[1]
            d  == x[2]
            sh == LimbBits - BitLen(d[Len(d)])
            as == BShl(a, sh)
            r  == BDivRec(as, BShl(d, sh), Len(as), <<>>)
        IN  <<BNorm(r[1]), BShr(r[2], sh)>>
      [] op = "BSqrtFrom" ->
        LET a == x[1]
            y == x[2]
            z == BShr(BAdd(y, BDivMod(a, y)[1]), 1)
        IN  IF BCmp(z, y) >= 0 THEN y ELSE BSqrtFrom(a, z)
      [] op = "BSqrt" ->
        BSqrtFrom(x[1], BShl(<<1>>, (BBitLen(x[1]) + 1) \div 2))
      [] op = "FRound" ->
        LET s      == x[1]
            m      == x[2]
            e      == x[3]
            sticky == x[4]
            len    == BBitLen(m)
            sh     == len - Precision
            q      == BShr(m, sh)
            c      == BCmp(BSub(m, BShl(q, sh)), BShl(<<1>>, sh - 1))
            up     == c > 0 \/ (c = 0 /\ (sticky \/ q[1] % 2 = 1))
            q2     == IF up THEN BAdd(q, <<1>>) ELSE q
        IN  IF m = <<>> THEN Zero
            ELSE IF len <= Precision
            THEN [s |-> s, m |-> BShl(m, Precision - len), e |-> e - (Precision - len)]
            ELSE IF BBitLen(q2) > Precision
            THEN [s |-> s, m |-> BShr(q2, 1), e |-> e + sh + 1]
            ELSE [s |-> s, m |-> q2, e |-> e + sh]
      [] op = "Product" ->
        LET a == x[1]
            b == x[2]
        IN  IF a.s = 0 \/ b.s = 0 THEN Zero
            ELSE FRound(a.s * b.s, BMul(a.m, b.m), a.e + b.e, FALSE)
      [] op = "Sum" ->
        LET a  == x[1]
            b  == x[2]
            e  == IF a.e < b.e THEN a.e ELSE b.e
            ma == BShl(a.m, a.e - e)
            mb == BShl(b.m, b.e - e)
            c  == BCmp(ma, mb)
        IN  IF a.s = 0 THEN b
            ELSE IF b.s = 0 THEN a
            ELSE IF a.s = b.s THEN FRound(a.s, BAdd(ma, mb), e, FALSE)
            ELSE IF c = 0 THEN Zero
            ELSE IF c > 0 THEN FRound(a.s, BSub(ma, mb), e, FALSE)
            ELSE FRound(b.s, BSub(mb, ma), e, FALSE)
      [] op = "Quotient" ->
        LET a  == x[1]
            b  == x[2]
            qr == BDivMod(BShl(a.m, GuardBits), b.m)
        IN  IF a.s = 0 THEN Zero
            ELSE FRound(a.s * b.s, qr[1], a.e - b.e - GuardBits, qr[2] # <<>>)
      [] op = "Root" ->
        LET a   == x[1]
            odd == a.e % 2
            n   == BShl(a.m, GuardBits + odd)
            r   == BSqrt(n)
        IN  IF a.s = 0 THEN Zero
            ELSE FRound(1, r, (a.e - odd - GuardBits) \div 2, BMul(r, r) # n)
      [] op = "Less" ->
        LET a == x[1]
            b == x[2]
            c == IF a.e # b.e THEN (IF a.e < b.e THEN -1 ELSE 1) ELSE BCmp(a.m, b.m)
        IN  IF a.s # b.s THEN a.s < b.s
            ELSE IF a.s = 0 THEN FALSE
            ELSE IF a.s > 0 THEN c < 0 ELSE c > 0
      [] op = "<" -> IsFinite(x[1]) /\ IsFinite(x[2]) /\ Less(x[1], x[2])
      [] op = "<=" -> IsFinite(x[1]) /\ IsFinite(x[2]) /\ ~Less(x[2], x[1])
      [] op = "Abs" -> [x[1] EXCEPT !.s = x[1].s * x[1].s]
      [] op = "Max" -> IF Less(x[1], x[2]) THEN x[2] ELSE x[1]
      [] op = "Min" -> IF Less(x[2], x[1]) THEN x[2] ELSE x[1]
      [] op = "executeSwap" -> executeSwap(x[1], x[2], x[3], x[4], x[5], x[6])
      [] op = "addLiquidity" -> addLiquidity(x[1], x[2], x[3], x[4])
      [] op = "withdrawLiquidity" -> withdrawLiquidity(x[1], x[2], x[3], x[4])
      [] op = "resetPool" -> resetPool(x[1])
      [] op = "/quote" -> quote(x[1], x[2])
      [] op = "/buy" -> buy(x[1], x[2])
      [] op = "/sell" -> sell(x[1], x[2])
      [] op = "/add-liquidity" -> addLiquidityHandler(x[1], x[2])
      [] op = "/remove-liquidity" -> removeLiquidityHandler(x[1], x[2])
      [] op = "calculateOutputAmount" ->
        IF calculateOutputAmountThrows(x[1], x[2], x[3])
        THEN [error |-> "All amounts must be positive", value |-> NaN]
        ELSE [error |-> "", value |-> calculateOutputAmount(x[1], x[2], x[3])]
      [] op = "calculateFee" -> [error |-> "", value |-> calculateFee(x[1], x[2])]
      [] op = "calculateLiquidityShares" ->
        [error |-> "",
         value |-> calculateLiquidityShares(x[1], x[2], x[3], x[4], x[5])]
      [] op = "validateSwapAmount" ->
        [error |-> "", value |-> validateSwapAmount(x[1])]
      [] op = "validateAddLiquidity" ->
        [error |-> "", value |-> validateAddLiquidity(x[1], x[2], x[3], x[4])]
      [] op = "validateSlippageTolerance" ->
        [error |-> "", value |-> validateSlippageTolerance(x[1])]
      [] op = "validatePriceImpact" ->
        [error |-> "", value |-> validatePriceImpact(x[1])]
      [] op = "validateSwapPair" ->
        [error |-> "", value |-> validateSwapPair(x[1], x[2])]
      [] op = "Served" -> {<<req, Run(x[1], <<x[2], req>>)>> : req \in Bodies(x[1]) \cup x[3]}
      [] op = "PerShare" ->
        \* whether ethReserve * usdcReserve / totalShares^2 of the pool x[2] is
        \* at least that of the pool x[1], less x[3] parts in 2^x[4] of
        \* it, compared exactly: both sides as integers times a power of two
        LET p  == x[1]
            q  == x[2]
            xm == BMul(BMul(q.ethReserve.m, q.usdcReserve.m),
                       BMul(p.totalShares.m, p.totalShares.m))
            xe == q.ethReserve.e + q.usdcReserve.e + 2 * p.totalShares.e
            ym == BMul(BMul(p.ethReserve.m, p.usdcReserve.m),
                       BMul(q.totalShares.m, q.totalShares.m))
            ye == p.ethReserve.e + p.usdcReserve.e + 2 * q.totalShares.e
            xs == BShl(xm, x[4] + (IF xe > ye THEN xe - ye ELSE 0))
            ya == BShl(ym, IF ye > xe THEN ye - xe ELSE 0)
            ys == BSub(BShl(ya, x[4]), BMulSmall(ya, x[3]))
        IN  BCmp(BNorm(xs), BNorm(ys)) >= 0
      [] op = "Calculations" -> Calculations
      [] op = "Validations" -> Validations
      [] op = "SwapQuantities" ->
        IF SwapQuantitiesThrow(x[1], x[2], x[3])
        THEN [error |-> "raised", value |-> NaN]
        ELSE [error |-> "", value |-> SwapQuantities(x[1], x[2], x[3],
                                                     DEFAULT_SLIPPAGE_TOLERANCE)]

\* app.post(route, handler): the response of the route's handler to req
Handle(route, p, req) == Do(route, <<p, req>>)

\* the requests a route is sent, the bodies in more among them, each with
\* the response of the route's handler on pool p
Served(route, p, more) == Do("Served", <<route, p, more>>)

\* a call of an exported pool function on the pool p
Call(function, p, args) == Do(function, <<p>> \o args)

-----------------------------------------------------------------------------
(* The server.  pool is the module-level pool object; last records the     *)
(* latest request: which it was, its fields, the pool before it and the    *)
(* response, and in prev the same of the request before it; steps counts   *)
(* the requests so far; inflight holds the requests that have arrived and  *)
(* are not answered yet, each with its handler's position; held is the     *)
(* object a caller of a read accessor was returned and keeps; config is the *)
(* configuration the process computed from its environment when it         *)
(* started; exchange is the request being passed down the application's    *)
(* stack of middleware and the response to it.                             *)

VARIABLES pool, last, steps, inflight, held, config, exchange

vars == <<pool, last, steps, inflight, held, config, exchange>>

MaxSteps == 2

MaxInflight == 2

MaxArrivals == 3

NoTokens == <<"", "">>

\* what last keeps of the request before the latest
Prev(l) ==
    [op |-> l.op, args |-> l.args, pre |-> l.pre, status |-> l.status, error |-> l.error,
     out |-> l.out]

\* no object returned by an accessor is kept
NotHeld == [accessor |-> "", returned |-> <<>>, aliased |-> {}]

\* a connection with no request on it
Idle == [pc |-> "idle", route |-> "", req |-> <<>>, snapshot |-> SeedPool, amounts |-> <<>>]

NoRequest ==
    [op |-> "", args |-> <<>>, pre |-> SeedPool, status |-> 0, error |-> "", out |-> <<>>]

\* process.env.NODE_ENV is not set
Unset == "undefined"

\* String.prototype.toLowerCase on the values NODE_ENV is given here
toLowerCase(s) ==
    CASE s = "Production" -> "production"
      [] s = "PRODUCTION" -> "production"
      [] s = "Staging" -> "staging"
      [] OTHER -> s

getEnvironment(NODE_ENV) ==
    LET env == IF NODE_ENV = Unset THEN Unset ELSE toLowerCase(NODE_ENV)
    IN  IF env = "production" THEN "production"
        ELSE IF env = "staging" THEN "staging"
        ELSE "development"

\* the config object of a process started with NODE_ENV
Config(NODE_ENV) ==
    LET env == getEnvironment(NODE_ENV)
    IN  [env |-> env,
         isDev |-> env = "development",
         isStaging |-> env = "staging",
         isProd |-> env = "production"]

\* no request has entered the application's stack
NoExchange ==
    [at |-> 0, proto |-> "", body |-> "", route |-> "", req |-> <<>>,
     headers |-> {}, status |-> 0, location |-> <<>>, handled |-> FALSE, sent |-> FALSE]

\* the process runs with NODE_ENV not set, and requests are given to the
\* route handlers as parsed bodies
Handlers ==
    /\ config = Config(Unset)
    /\ exchange = NoExchange

Last(op, tokens, args, pre, r, prev) ==
    [op |-> op, tokens |-> tokens, args |-> args, pre |-> pre,
     status |-> r.status, error |-> r.error, out |-> r.out, prev |-> prev]

Init ==
    /\ pool = SeedPool
    /\ last = Last("start", NoTokens, <<>>, SeedPool, Response(SeedPool, 0, "", <<>>),
                   NoRequest)
    /\ steps = 0
    /\ inflight = [i \in 1..MaxInflight |-> Idle]
    /\ held = NotHeld
    /\ Handlers

\* the request that burns exactly the shares the latest request, a deposit,
\* issued
BurnIssuedRequests ==
    IF last.op = "add-liquidity" /\ last.status = 200
    THEN {[sharesToBurn |-> last.out[3]]}
    ELSE {}

\* One request served: the handler runs to completion on the pool
Serve(op, tokens, args, r) ==
    /\ pool' = r.pool
    /\ last' = Last(op, tokens, args, pool, r, Prev(last))
    /\ steps' = steps + 1
    /\ UNCHANGED <<inflight, held, config, exchange>>

Quote ==
    /\ steps < MaxSteps
    /\ \E x \in Served("/quote", pool, {}) :
           Serve("quote", <<x[1].inputToken, x[1].outputToken>>,
                 <<x[1].amount, x[1].slippageTolerance>>, x[2])

Buy ==
    /\ steps < MaxSteps
    /\ \E x \in Served("/buy", pool, {}) :
           Serve("buy", NoTokens, <<x[1].amount, x[1].minOutput, x[1].slippageTolerance>>,
                 x[2])

Sell ==
    /\ steps < MaxSteps
    /\ \E x \in Served("/sell", pool, {}) :
           Serve("sell", NoTokens, <<x[1].amount, x[1].minOutput, x[1].slippageTolerance>>,
                 x[2])

AddLiquidity ==
    /\ steps < MaxSteps
    /\ \E x \in Served("/add-liquidity", pool, {}) :
           Serve("add-liquidity", NoTokens, <<x[1].ethAmount, x[1].usdcAmount>>, x[2])

RemoveLiquidity ==
    /\ steps < MaxSteps
    /\ \E x \in Served("/remove-liquidity", pool, BurnIssuedRequests) :
           Serve("remove-liquidity", NoTokens, <<x[1].sharesToBurn>>, x[2])

Next == Quote \/ Buy \/ Sell \/ AddLiquidity \/ RemoveLiquidity

Spec == Init /\ [][Next]_vars

-----------------------------------------------------------------------------
(* The pool engine under direct calls.  The pool's functions are exported  *)
(* and take whatever amounts the caller supplies; here they are called     *)
(* with amounts no handler would compute, from the seed pool on.  last     *)
(* records the call as it records a request, its status 0.                 *)

Outcome(r) == Response(r.pool, 0, r.error, <<>>)

\* <<amountIn, amountOut, feeAmount>>: a swap that grows the product, four
\* that shrink the seed pool's product by about its tolerance, one that
\* shrinks it far more, two that empty or overdraw the output reserve
SwapAmounts ==
    { <<FromInt(10), FromInt(9), Dec(3, 100)>>,
      <<Zero, Dec(1, 2000000000), Zero>>,
      <<Zero, Dec(4, 1000000000), Zero>>,
      <<Zero, Dec(5, 1000000000), Zero>>,
      <<Zero, Dec(6, 1000000000), Zero>>,
      <<One, FromInt(100), Zero>>,
      <<One, Million, Zero>>,
      <<One, FromInt(2000000), Zero>> }

\* <<ethAmount, usdcAmount, shares>> of a deposit
DepositAmounts ==
    { <<FromInt(100), FromInt(100), FromInt(100)>>,
      <<FromInt(1000), FromInt(3000), FromInt(1000)>> }

\* <<ethAmount, usdcAmount, shares>> of a withdrawal: within the reserves,
\* all of them, more than them
WithdrawalAmounts ==
    { <<FromInt(100), FromInt(100), FromInt(100)>>,
      <<Million, Million, Million>>,
      <<FromInt(2000000), One, One>> }

Called(function, tokens, args, r) ==
    /\ pool' = r.pool
    /\ last' = Last(function, tokens, args, pool, Outcome(r), Prev(last))
    /\ steps' = steps + 1
    /\ UNCHANGED <<inflight, held, config, exchange>>

ExecuteSwapCall ==
    /\ steps < MaxSteps
    /\ \E t \in {<<"ETH", "USDC">>, <<"USDC", "ETH">>} : \E a \in SwapAmounts :
           \E r \in {Call("executeSwap", pool, t \o a)} :
               Called("executeSwap", t, a, r)

AddLiquidityCall ==
    /\ steps < MaxSteps
    /\ \E a \in DepositAmounts : \E r \in {Call("addLiquidity", pool, a)} :
           Called("addLiquidity", NoTokens, a, r)

WithdrawLiquidityCall ==
    /\ steps < MaxSteps
    /\ \E a \in WithdrawalAmounts : \E r \in {Call("withdrawLiquidity", pool, a)} :
           Called("withdrawLiquidity", NoTokens, a, r)

EngineNext == ExecuteSwapCall \/ AddLiquidityCall \/ WithdrawLiquidityCall

EngineSpec == Init /\ [][EngineNext]_vars

-----------------------------------------------------------------------------
(* The routes, and resetPool called by the operator between requests.      *)

ResetPoolCall ==
    /\ steps < MaxSteps + 1
    /\ last.op # "resetPool"
    /\ \E r \in {Call("resetPool", pool, <<>>)} : Called("resetPool", NoTokens, <<>>, r)

ResetNext == Next \/ ResetPoolCall

ResetSpec == Init /\ [][ResetNext]_vars

-----------------------------------------------------------------------------
(* One trader's requests in a row: /sell of the largest amount a request   *)
(* may carry, again and again, and at any point a /buy.  The sells move    *)
(* the pool far from its seed: the USDC reserve grows by the amount sold   *)
(* each time, and the ETH reserve shrinks.                                 *)

MaxSells == 2329

\* the amounts of ETH the trader buys with
BuyAmounts == {FromInt(79794), FromInt(100000)}

SellLargest ==
    /\ steps < MaxSells
    /\ last.op \in {"start", "sell"}
    /\ \E req \in {SwapRequest(MAX_TRANSACTION_SIZE, Undefined, Undefined)} :
       \E r \in {Handle("/sell", pool, req)} :
           Serve("sell", NoTokens, <<req.amount, req.minOutput, req.slippageTolerance>>, r)

BuyOnce ==
    /\ last.op \in {"start", "sell"}
    /\ \E a \in BuyAmounts : \E req \in {SwapRequest(a, Undefined, Undefined)} :
       \E r \in {Handle("/buy", pool, req)} :
           Serve("buy", NoTokens, <<req.amount, req.minOutput, req.slippageTolerance>>, r)

TraderNext == SellLargest \/ BuyOnce

TraderSpec == Init /\ [][TraderNext]_vars

-----------------------------------------------------------------------------
(* The routes, and a trader who swaps back all that the swap before paid   *)
(* out.                                                                    *)

\* the request that swaps back the whole output of the latest request, a
\* swap on the other route
SwapBackRequests(route) ==
    IF last.op = route /\ last.status = 200
    THEN {SwapRequest(last.out[2], Undefined, Undefined)}
    ELSE {}

SellOutput ==
    /\ steps < MaxSteps + 1
    /\ \E req \in SwapBackRequests("buy") : \E r \in {Handle("/sell", pool, req)} :
           Serve("sell", NoTokens, <<req.amount, req.minOutput, req.slippageTolerance>>, r)

BuyOutput ==
    /\ steps < MaxSteps + 1
    /\ \E req \in SwapBackRequests("sell") : \E r \in {Handle("/buy", pool, req)} :
           Serve("buy", NoTokens, <<req.amount, req.minOutput, req.slippageTolerance>>, r)

SwapBackNext == Next \/ SellOutput \/ BuyOutput

SwapBackSpec == Init /\ [][SwapBackNext]_vars

-----------------------------------------------------------------------------
(* The routes, and a trader who splits a trade: a served swap is followed  *)
(* by another on the same route.                                           *)

SplitAmounts == {FromInt(10), FromInt(100), FromInt(1000)}

\* the requests that swap again on the route of the latest request
SplitRequests(route) ==
    IF last.op = route /\ last.status = 200
    THEN {SwapRequest(amount, Undefined, Undefined) : amount \in SplitAmounts}
    ELSE {}

BuyAgain ==
    /\ steps < MaxSteps + 1
    /\ \E req \in SplitRequests("buy") : \E r \in {Handle("/buy", pool, req)} :
           Serve("buy", NoTokens, <<req.amount, req.minOutput, req.slippageTolerance>>, r)

SellAgain ==
    /\ steps < MaxSteps + 1
    /\ \E req \in SplitRequests("sell") : \E r \in {Handle("/sell", pool, req)} :
           Serve("sell", NoTokens, <<req.amount, req.minOutput, req.slippageTolerance>>, r)

SplitNext == Next \/ BuyAgain \/ SellAgain

SplitSpec == Init /\ [][SplitNext]_vars

-----------------------------------------------------------------------------
(* The read accessors.  An accessor returns an object; a field of it that  *)
(* holds a number is the caller's own, a field that holds an object is a   *)
(* reference, and what the caller reads through a reference is what the    *)
(* object referred to holds at the time of the read.                       *)

\* return { ...pool }: a new object with the pool's fields, its
\* accumulatedFees the pool's own accumulatedFees object
getPoolState(p) ==
    [accessor |-> "getPoolState", returned |-> p, aliased |-> {"accumulatedFees"}]

\* return { ...pool.accumulatedFees }: a new object with the two counters
getAccumulatedFees(p) ==
    [accessor |-> "getAccumulatedFees", returned |-> p.accumulatedFees, aliased |-> {}]

\* what the holder of h reads from it while the pool is p
Read(h, p) ==
    IF "accumulatedFees" \in h.aliased
    THEN [h.returned EXCEPT !.accumulatedFees = p.accumulatedFees]
    ELSE h.returned

GetPoolStateCall ==
    /\ steps < MaxSteps
    /\ held' = getPoolState(pool)
    /\ steps' = steps + 1
    /\ UNCHANGED <<pool, last, inflight, config, exchange>>

GetAccumulatedFeesCall ==
    /\ steps < MaxSteps
    /\ held' = getAccumulatedFees(pool)
    /\ steps' = steps + 1
    /\ UNCHANGED <<pool, last, inflight, config, exchange>>

AccessorNext == EngineNext \/ GetPoolStateCall \/ GetAccumulatedFeesCall

AccessorSpec == Init /\ [][AccessorNext]_vars

-----------------------------------------------------------------------------
(* The calculations called on their own.  last holds in tokens the         *)
(* function and in args its arguments, drawn at the start; the call puts   *)
(* the values returned, or the error thrown, in last.                      *)

MathInit ==
    /\ pool = SeedPool
    /\ steps = 0
    /\ inflight = [i \in 1..MaxInflight |-> Idle]
    /\ held = NotHeld
    /\ Handlers
    /\ \E c \in Do("Calculations", <<>>) :
           last = Last("", <<c[1], "">>, c[2], SeedPool,
                       Response(SeedPool, 0, "", <<>>), NoRequest)

\* the calculation was made: the values it returned, or the error
Calculated(function, results) ==
    /\ last' = [last EXCEPT !.op = function,
                            !.error = IF \E i \in DOMAIN results : results[i].error # ""
                                      THEN "raised" ELSE "",
                            !.out = [i \in DOMAIN results |-> results[i].value]]
    /\ steps' = steps + 1
    /\ UNCHANGED <<pool, inflight, held, config, exchange>>

CalculateOutputAmountCall ==
    /\ last.op = ""
    /\ last.tokens[1] = "calculateOutputAmount"
    /\ \E results \in {<<Evaluate("calculateOutputAmount",
                                   <<last.args[1], last.args[3], last.args[4]>>),
                          Evaluate("calculateOutputAmount",
                                   <<last.args[2], last.args[3], last.args[4]>>)>>} :
           Calculated("calculateOutputAmount", results)

CalculateFeeCall ==
    /\ last.op = ""
    /\ last.tokens[1] = "calculateFee"
    /\ \E results \in {<<Evaluate("calculateFee", <<last.args[1], last.args[2]>>),
                          Evaluate("calculateFee", <<last.args[1], last.args[3]>>)>>} :
           Calculated("calculateFee", results)

CalculateLiquiditySharesCall ==
    /\ last.op = ""
    /\ last.tokens[1] = "calculateLiquidityShares"
    /\ \E results \in {<<Evaluate("calculateLiquidityShares", last.args)>>} :
           Calculated("calculateLiquidityShares", results)

SwapQuantitiesCall ==
    /\ last.op = ""
    /\ last.tokens[1] = "SwapQuantities"
    /\ \E results \in {<<Evaluate("SwapQuantities",
                                   <<last.args[1], last.args[3], last.args[4]>>),
                          Evaluate("SwapQuantities",
                                   <<last.args[2], last.args[3], last.args[4]>>)>>} :
           Calculated("SwapQuantities", results)

MathNext ==
    \/ CalculateOutputAmountCall
    \/ CalculateFeeCall
    \/ CalculateLiquiditySharesCall
    \/ SwapQuantitiesCall

MathSpec == MathInit /\ [][MathNext]_vars

-----------------------------------------------------------------------------
(* The validation functions called on their own, and single requests to    *)
(* the seed pool.  last holds in tokens the function or the route and in   *)
(* args the arguments or the fields of the request body, drawn at the      *)
(* start; the call puts the result, or the response, in last.              *)

ValidationInit ==
    /\ pool = SeedPool
    /\ steps = 0
    /\ inflight = [i \in 1..MaxInflight |-> Idle]
    /\ held = NotHeld
    /\ Handlers
    /\ \E c \in Do("Validations", <<>>) :
           last = Last("", <<c[1], "">>, c[2], SeedPool,
                       Response(SeedPool, 0, "", <<>>), NoRequest)

\* the function named in last is called with the arguments in last
Validate(function) ==
    /\ last.op = ""
    /\ last.tokens[1] = function
    /\ \E results \in {<<Evaluate(function, last.args)>>} :
           Calculated(function, results)

ValidateSwapAmountCall == Validate("validateSwapAmount")

ValidateAddLiquidityCall == Validate("validateAddLiquidity")

ValidateSlippageToleranceCall == Validate("validateSlippageTolerance")

ValidatePriceImpactCall == Validate("validatePriceImpact")

ValidateSwapPairCall == Validate("validateSwapPair")

\* the request in last was served: the response and the pool it leaves
Requested(route, r) ==
    /\ pool' = r.pool
    /\ last' = [last EXCEPT !.op = route, !.status = r.status,
                            !.error = r.error, !.out = r.out]
    /\ steps' = steps + 1
    /\ UNCHANGED <<inflight, held, config, exchange>>

QuoteRequest ==
    /\ last.op = ""
    /\ last.tokens[1] = "/quote"
    /\ \E r \in {Handle("/quote", pool,
                         [inputToken |-> last.args[1], outputToken |-> last.args[2],
                          amount |-> last.args[3],
                          slippageTolerance |-> last.args[4]])} :
           Requested("/quote", r)

BuyRequest ==
    /\ last.op = ""
    /\ last.tokens[1] = "/buy"
    /\ \E r \in {Handle("/buy", pool,
                         SwapRequest(last.args[1], last.args[2], last.args[3]))} :
           Requested("/buy", r)

SellRequest ==
    /\ last.op = ""
    /\ last.tokens[1] = "/sell"
    /\ \E r \in {Handle("/sell", pool,
                         SwapRequest(last.args[1], last.args[2], last.args[3]))} :
           Requested("/sell", r)

ValidationNext ==
    \/ ValidateSwapAmountCall
    \/ ValidateAddLiquidityCall
    \/ ValidateSlippageToleranceCall
    \/ ValidatePriceImpactCall
    \/ ValidateSwapPairCall
    \/ QuoteRequest
    \/ BuyRequest
    \/ SellRequest

ValidationSpec == ValidationInit /\ [][ValidationNext]_vars

-----------------------------------------------------------------------------
(* The server under concurrent requests.  Requests arrive on connections   *)
(* and wait in the event loop; a handler is a synchronous callback, with   *)
(* no await in it, that reads the pool, computes its amounts and calls the *)
(* pool engine.  The handler is taken in two steps here, the read with the *)
(* computation and then the engine call, and the event loop runs a         *)
(* callback that has begun to its end before it begins another.            *)

ConcurrentRequests ==
    { <<"/buy", SwapRequest(FromInt(10), Undefined, Undefined)>>,
      <<"/buy", SwapRequest(Dec(1, 1000), Undefined, Undefined)>>,
      <<"/sell", SwapRequest(FromInt(10), Undefined, Undefined)>>,
      <<"/add-liquidity", [ethAmount |-> FromInt(100), usdcAmount |-> FromInt(100)]>>,
      <<"/remove-liquidity", [sharesToBurn |-> FromInt(100)]>> }

\* a callback may run at all times
RunnableAlways(i) == TRUE

\* run to completion: the callback of connection i may run only while no
\* other callback is between its read of the pool and its engine call
Runnable(i) == \A j \in DOMAIN inflight : j # i => inflight[j].pc # "computed"

\* the engine call a handler makes with the amounts it computed
Commit(route, p, amounts) ==
    IF route = "/buy"
    THEN Call("executeSwap", p, <<"ETH", "USDC", amounts[1], amounts[2], amounts[3]>>)
    ELSE IF route = "/sell"
    THEN Call("executeSwap", p, <<"USDC", "ETH", amounts[1], amounts[2], amounts[3]>>)
    ELSE IF route = "/add-liquidity"
    THEN Call("addLiquidity", p, <<amounts[1], amounts[2], amounts[3]>>)
    ELSE Call("withdrawLiquidity", p, <<amounts[1], amounts[2], amounts[3]>>)

\* a request arrives and its body is parsed
Arrive ==
    /\ steps < MaxArrivals
    /\ \E i \in DOMAIN inflight : \E c \in ConcurrentRequests :
           /\ inflight[i].pc = "idle"
           /\ inflight' = [inflight EXCEPT ![i] = [Idle EXCEPT !.pc = "queued",
                                                               !.route = c[1],
                                                               !.req = c[2]]]
           /\ steps' = steps + 1
           /\ UNCHANGED <<pool, last, held, config, exchange>>

\* a handler reads the pool, validates the request and rejects it
Reject ==
    \E i \in DOMAIN inflight :
        /\ inflight[i].pc = "queued"
        /\ Runnable(i)
        /\ \E r \in {Handle(inflight[i].route, pool, inflight[i].req)} :
               /\ r.status # 200
               /\ last' = Last(inflight[i].route, NoTokens, <<>>, pool, r, Prev(last))
        /\ inflight' = [inflight EXCEPT ![i] = Idle]
        /\ UNCHANGED <<pool, steps, held, config, exchange>>

\* a handler reads the pool, validates the request and computes its amounts
Compute ==
    \E i \in DOMAIN inflight :
        /\ inflight[i].pc = "queued"
        /\ Runnable(i)
        /\ \E r \in {Handle(inflight[i].route, pool, inflight[i].req)} :
               /\ r.status = 200
               /\ inflight' = [inflight EXCEPT ![i].pc = "computed",
                                               ![i].snapshot = pool,
                                               ![i].amounts = r.out]
        /\ UNCHANGED <<pool, last, steps, held, config, exchange>>

\* the handler calls the pool engine with its amounts and responds
Respond ==
    \E i \in DOMAIN inflight :
        /\ inflight[i].pc = "computed"
        /\ Runnable(i)
        /\ \E r \in {Commit(inflight[i].route, pool, inflight[i].amounts)} :
               /\ pool' = r.pool
               /\ last' = Last(inflight[i].route, NoTokens, <<>>, pool,
                               Response(r.pool, IF r.error = "" THEN 200 ELSE 500,
                                        r.error, inflight[i].amounts),
                               Prev(last))
        /\ inflight' = [inflight EXCEPT ![i] = Idle]
        /\ UNCHANGED <<steps, held, config, exchange>>

ConcurrentNext == Arrive \/ Reject \/ Compute \/ Respond

ConcurrentSpec == Init /\ [][ConcurrentNext]_vars

-----------------------------------------------------------------------------
(* The application's middleware.  A request passes down the stack in the   *)
(* order app.use registered the middleware: the JSON body parser, the      *)
(* security headers, in staging and production the HTTPS redirect and      *)
(* HSTS, then the routes.  exchange.at is the position in the stack, and   *)
(* next() moves it on; a response that is sent ends the exchange.          *)

NodeEnvValues ==
    {Unset, "", "development", "test", "staging", "Staging", "production",
     "Production", "PRODUCTION"}

\* the x-forwarded-proto header of a request: "" when there is none
ProtoValues == {"https", "http", ""}

\* the body of a request: JSON, or text that is not JSON
BodyValues == {"json", "malformed"}

\* the routes requested and the bodies sent to them
Requests ==
    { <<"/buy", SwapRequest(FromInt(10), Undefined, Undefined)>>,
      <<"/sell", SwapRequest(FromInt(10), Undefined, Undefined)>> }

SecurityHeaders ==
    {"X-Content-Type-Options", "X-XSS-Protection", "X-Frame-Options", "Referrer-Policy",
     "Content-Security-Policy"}

Stack(c) ==
    <<"express.json", "headers">>
    \o (IF c.isProd \/ c.isStaging THEN <<"https", "hsts">> ELSE <<>>)
    \o <<"route">>

\* the middleware the request is at
At(name) ==
    /\ ~exchange.sent
    /\ exchange.at \in DOMAIN Stack(config)
    /\ Stack(config)[exchange.at] = name

\* next(): the request goes on to the middleware below
next(e) == [e EXCEPT !.at = @ + 1]

\* the response is sent with this status
Sent(e, status) == [e EXCEPT !.status = status, !.sent = TRUE]

SecurityInit ==
    /\ pool = SeedPool
    /\ last = Last("start", NoTokens, <<>>, SeedPool, Response(SeedPool, 0, "", <<>>),
                   NoRequest)
    /\ steps = 0
    /\ inflight = [i \in 1..MaxInflight |-> Idle]
    /\ held = NotHeld
    /\ \E NODE_ENV \in NodeEnvValues : config = Config(NODE_ENV)
    /\ exchange = NoExchange

\* a request reaches the application; Express has put X-Powered-By on the
\* response
Request ==
    /\ steps < MaxSteps
    /\ exchange = NoExchange \/ exchange.sent
    /\ \E proto \in ProtoValues : \E body \in BodyValues : \E r \in Requests :
           exchange' = [NoExchange EXCEPT !.at = 1, !.proto = proto, !.body = body,
                                          !.route = r[1],
                                          !.req = IF body = "json" THEN r[2] ELSE <<>>,
                                          !.headers = {"X-Powered-By"}]
    /\ steps' = steps + 1
    /\ UNCHANGED <<pool, last, inflight, held, config>>

\* express.json(): a body that does not parse is an error, which passes by
\* the middleware and the routes below and is answered with 400
ExpressJson ==
    /\ At("express.json")
    /\ exchange' = IF exchange.body = "malformed"
                   THEN Sent(exchange, 400)
                   ELSE next(exchange)
    /\ UNCHANGED <<pool, last, steps, inflight, held, config>>

SetSecurityHeaders ==
    /\ At("headers")
    /\ exchange' = next([exchange EXCEPT
                            !.headers = (@ \cup SecurityHeaders) \ {"X-Powered-By"}])
    /\ UNCHANGED <<pool, last, steps, inflight, held, config>>

EnforceHttps ==
    /\ At("https")
    /\ exchange' = IF exchange.proto # "https"
                   THEN [Sent(exchange, 301) EXCEPT !.location = <<"https", exchange.route>>]
                   ELSE next(exchange)
    /\ UNCHANGED <<pool, last, steps, inflight, held, config>>

SetHsts ==
    /\ At("hsts")
    /\ exchange' = next([exchange EXCEPT
                            !.headers = @ \cup {"Strict-Transport-Security"}])
    /\ UNCHANGED <<pool, last, steps, inflight, held, config>>

\* the handler of the route runs on the parsed body and sends its response
Route ==
    /\ At("route")
    /\ \E r \in {Handle(exchange.route, pool, exchange.req)} :
           /\ pool' = r.pool
           /\ last' = Last(exchange.route, NoTokens,
                           <<exchange.req.amount, exchange.req.minOutput,
                             exchange.req.slippageTolerance>>, pool, r, Prev(last))
           /\ exchange' = [Sent(exchange, r.status) EXCEPT !.handled = TRUE]
    /\ UNCHANGED <<steps, inflight, held, config>>

SecurityNext ==
    Request \/ ExpressJson \/ SetSecurityHeaders \/ EnforceHttps \/ SetHsts \/ Route

SecuritySpec == SecurityInit /\ [][SecurityNext]_vars

-----------------------------------------------------------------------------
(* The properties.  Those of the requests are stated of Spec, those of the *)
(* pool's functions of EngineSpec; each speaks of the latest request or    *)
(* call, which last records with the pool before it.                       *)

\* pool.ethReserve * pool.usdcReserve, as executeSwap computes it
ReserveProduct(p) == FMul(p.ethReserve, p.usdcReserve)

ReservesPositive(p) == FGt(p.ethReserve, Zero) /\ FGt(p.usdcReserve, Zero)

SwapServed == last.op \in {"buy", "sell"} /\ last.status = 200

\* C1: in every state reached by API requests from the seed pool, accepted
\* or rejected, ethReserve > 0 and usdcReserve > 0
C1_ReservesStayPositive == ReservesPositive(pool)

\* a withdrawal was served and lowered both reserves
C1_Witness ==
    /\ last.op = "remove-liquidity"
    /\ last.status = 200
    /\ FLt(pool.ethReserve, last.pre.ethReserve)
    /\ FLt(pool.usdcReserve, last.pre.usdcReserve)

\* C2: executeSwap returns normally exactly when, after the deltas, both
\* reserves are strictly positive and their product is at least k_before
\* minus eps, eps = max(0.001, 5e-15 * k_before); otherwise it raises, the
\* pool-broken error when a reserve is not positive, the constant-product
\* error when only the product fails
C2_SwapReturnsWithinTolerance ==
    last.op = "executeSwap" =>
        LET eps    == FMax(Dec(1, 1000), FMul(FiveEMinus15, last.pre.k))
            within == FGe(ReserveProduct(pool), FSub(last.pre.k, eps))
        IN  /\ (last.error = "") <=> (ReservesPositive(pool) /\ within)
            /\ ~ReservesPositive(pool) => last.error = "Swap would break the pool"
            /\ (ReservesPositive(pool) /\ ~within)
                   => last.error = "Swap violates constant product formula"

\* executeSwap returned although the product fell below k_before
C2_Witness ==
    /\ last.op = "executeSwap"
    /\ last.error = ""
    /\ FLt(ReserveProduct(pool), last.pre.k)

C4_RaisedSwapLeavesPool ==
    (last.op = "executeSwap" /\ last.error # "") => pool = last.pre

\* C5: when withdrawLiquidity fails with the depletion error, ethReserve,
\* usdcReserve, totalShares and k are unchanged from before the call
C5_FailedWithdrawalLeavesPool ==
    (last.op = "withdrawLiquidity" /\ last.error = "Withdrawal would deplete reserves")
        => /\ pool.ethReserve = last.pre.ethReserve
           /\ pool.usdcReserve = last.pre.usdcReserve
           /\ pool.totalShares = last.pre.totalShares
           /\ pool.k = last.pre.k

\* C6: after a successful /buy of gross input X, ethReserve has grown by
\* exactly X and usdcReserve has shrunk by the paid output; after a
\* successful /sell the same of usdcReserve and ethReserve
C6_FeesStayInReserves ==
    /\ (last.op = "buy" /\ last.status = 200)
           => /\ pool.ethReserve = FAdd(last.pre.ethReserve, last.args[1])
              /\ pool.usdcReserve = FSub(last.pre.usdcReserve, last.out[2])
    /\ (last.op = "sell" /\ last.status = 200)
           => /\ pool.usdcReserve = FAdd(last.pre.usdcReserve, last.args[1])
              /\ pool.ethReserve = FSub(last.pre.ethReserve, last.out[2])

\* C7: every successful /buy or /sell strictly increases the product of
\* the reserves, and k
C7_SwapGrowsProduct ==
    SwapServed => /\ FGt(ReserveProduct(pool), ReserveProduct(last.pre))
                  /\ FGt(pool.k, last.pre.k)

\* C8: after each successful /buy or /sell the product of the reserves is
\* at least the k of immediately before that swap
C8_ProductAtLeastK ==
    SwapServed => FGe(ReserveProduct(pool), last.pre.k)

\* C9: a /quote, valid or invalid, leaves ethReserve, usdcReserve,
\* totalShares, accumulatedFees and k as they were
C9_QuoteLeavesPool == last.op = "quote" => pool = last.pre

\* a quote was answered with its quantities
C9_Witness == last.op = "quote" /\ last.status = 200 /\ last.out # <<>>

\* C10: a /buy, /sell, /add-liquidity or /remove-liquidity request rejected
\* by validation leaves every pool field unchanged
C10_RejectedLeavesPool ==
    (/\ last.op \in {"buy", "sell", "add-liquidity", "remove-liquidity"}
     /\ last.status = 400) => pool = last.pre

\* a swap of 0.001 was rejected, after a request that had changed the pool
C10_Witness ==
    /\ last.op = "buy"
    /\ last.status = 400
    /\ last.error = "Amount too small"
    /\ last.args[1] = Dec(1, 1000)
    /\ pool # SeedPool

SwapComputed == last.op \in {"buy", "sell"} /\ last.out # <<>>

\* C12: a /buy or /sell executes only if the computed output is at least
\* max(expectedOutput * (1 - slippageTolerance), the caller's minimum), so
\* a served swap pays out at least the caller's minimum, and a request
\* whose minimum exceeds the computed output fails with the pool unchanged
C12_SlippageGuard ==
    SwapComputed =>
        LET output    == last.out[2]
            min       == last.args[2]
            tolerance == IF last.args[3] = Undefined THEN DEFAULT_SLIPPAGE_TOLERANCE
                         ELSE last.args[3]
            floor     == FMul(output, FSub(One, tolerance))
        IN  /\ last.status = 200
                   => /\ FGe(output, floor)
                      /\ IsFinite(min) => FGe(output, min)
                      /\ pool # last.pre
            /\ (IsFinite(min) /\ FGt(min, output))
                   => /\ last.status = 400
                      /\ last.error = "Slippage exceeded"
                      /\ pool = last.pre

\* a swap whose caller asked for more than the computed output was refused
C12_Witness ==
    /\ SwapComputed
    /\ IsFinite(last.args[2])
    /\ FGt(last.args[2], last.out[2])
    /\ last.status = 400

\* a deposit of (a, b) with a/R_a = b/R_b into a pool with shares was served
\* and the next request burned exactly the shares it issued
RoundTrip ==
    /\ last.op = "remove-liquidity"
    /\ last.status = 200
    /\ last.prev.op = "add-liquidity"
    /\ last.prev.status = 200
    /\ last.args[1] = last.prev.out[3]
    /\ FGt(last.prev.pre.totalShares, Zero)
    /\ FDiv(last.prev.args[1], last.prev.pre.ethReserve)
           = FDiv(last.prev.args[2], last.prev.pre.usdcReserve)

RoundTripTolerance == FDiv(One, FMul(Million, Million))

\* x is y to within the relative tolerance
Near(x, y) == FLe(FAbs(FSub(x, y)), FMul(RoundTripTolerance, FAbs(y)))

\* C13 as stated: the deposit issues exactly S * a / R_a shares and burning
\* them returns exactly (a, b) and restores the reserves and totalShares
C13_RoundTripExact ==
    RoundTrip =>
        LET d == last.prev
        IN  /\ d.out[3] = FDiv(FMul(d.pre.totalShares, d.args[1]), d.pre.ethReserve)
            /\ last.out[1] = d.args[1]
            /\ last.out[2] = d.args[2]
            /\ pool.ethReserve = d.pre.ethReserve
            /\ pool.usdcReserve = d.pre.usdcReserve
            /\ pool.totalShares = d.pre.totalShares

\* C13, amended: the deposit issues S * a / R_a shares and burning them
\* returns (a, b) and restores the reserves and totalShares, each to within
\* a relative floating-point tolerance of 1e-12
C13_RoundTripWithinTolerance ==
    RoundTrip =>
        LET d == last.prev
        IN  /\ Near(d.out[3], FDiv(FMul(d.pre.totalShares, d.args[1]), d.pre.ethReserve))
            /\ Near(last.out[1], d.args[1])
            /\ Near(last.out[2], d.args[2])
            /\ Near(pool.ethReserve, d.pre.ethReserve)
            /\ Near(pool.usdcReserve, d.pre.usdcReserve)
            /\ Near(pool.totalShares, d.pre.totalShares)

\* a round trip returned an amount that is not the amount deposited
C13_Witness == RoundTrip /\ last.out[1] # last.prev.args[1]

\* C14: under any interleaving of concurrent requests, a handler that has
\* read the pool and computed its amounts finds the pool as it read it until
\* its engine call, and no other handler is between its read and its call:
\* the amounts committed were computed from the reserves and totalShares
\* current at the commit
C14_CommitOnSnapshot ==
    \A i \in DOMAIN inflight :
        inflight[i].pc = "computed"
            => /\ inflight[i].snapshot = pool
               /\ inflight[i].amounts = Handle(inflight[i].route, pool, inflight[i].req).out
               /\ \A j \in DOMAIN inflight : j # i => inflight[j].pc # "computed"

\* a handler is between its read and its engine call while another request
\* waits, on a pool that an earlier request has changed
C14_Witness ==
    /\ pool # SeedPool
    /\ \E i, j \in DOMAIN inflight :
           inflight[i].pc = "computed" /\ inflight[j].pc = "queued"

\* C15: totalShares > 0 in every state reached through the API from the
\* seed pool, so no deposit takes the totalShares = 0 branch of
\* calculateLiquidityShares
C15_SharesStayPositive ==
    /\ FGt(pool.totalShares, Zero)
    /\ last.op = "add-liquidity" => last.pre.totalShares # Zero

\* a withdrawal was served that left less than a thousandth of the seed
\* pool's shares
C15_Witness ==
    /\ last.op = "remove-liquidity"
    /\ last.status = 200
    /\ FLt(pool.totalShares, FromInt(1000))

\* C16: over the API's requests neither accumulated-fee counter decreases,
\* and a served swap adds its fee, 0.003 times the gross input, to the
\* counter of the input asset and leaves the other counter as it was
C16_FeeCountersGrow ==
    LET fee == FMul(last.args[1], SWAP_FEE_PERCENTAGE)
    IN  /\ FGe(pool.accumulatedFees.eth, last.pre.accumulatedFees.eth)
        /\ FGe(pool.accumulatedFees.usdc, last.pre.accumulatedFees.usdc)
        /\ (last.op = "buy" /\ last.status = 200)
               => /\ pool.accumulatedFees.eth = FAdd(last.pre.accumulatedFees.eth, fee)
                  /\ FGt(pool.accumulatedFees.eth, last.pre.accumulatedFees.eth)
                  /\ pool.accumulatedFees.usdc = last.pre.accumulatedFees.usdc
        /\ (last.op = "sell" /\ last.status = 200)
               => /\ pool.accumulatedFees.usdc = FAdd(last.pre.accumulatedFees.usdc, fee)
                  /\ FGt(pool.accumulatedFees.usdc, last.pre.accumulatedFees.usdc)
                  /\ pool.accumulatedFees.eth = last.pre.accumulatedFees.eth

\* a /sell was served on a pool that had collected a fee in ETH
C16_Witness ==
    /\ last.op = "sell"
    /\ last.status = 200
    /\ FGt(last.pre.accumulatedFees.eth, Zero)
    /\ FGt(pool.accumulatedFees.usdc, Zero)

\* C17: the object getAccumulatedFees returned and the snapshot
\* getPoolState returned, its accumulatedFees included, read as they were
\* returned after any later executeSwap, addLiquidity or withdrawLiquidity
C17_AccessorsIsolated == held.accessor # "" => Read(held, pool) = held.returned

\* C18: for amountIn > 0, reserveIn > 0 and reserveOut > 0
\* calculateOutputAmount returns amountIn * reserveOut / (reserveIn +
\* amountIn), above 0 and below reserveOut, and of a larger amountIn against
\* the same reserves it returns strictly more
C18_OutputConserved ==
    (/\ last.op = "calculateOutputAmount"
     /\ \A i \in 1..4 : FGt(last.args[i], Zero)
     /\ FLt(last.args[1], last.args[2]))
        => /\ last.error = ""
           /\ last.out[1] = FDiv(FMul(last.args[1], last.args[4]),
                                 FAdd(last.args[3], last.args[1]))
           /\ FGt(last.out[1], Zero)
           /\ FLt(last.out[1], last.args[4])
           /\ FLt(last.out[2], last.args[4])
           /\ FLt(last.out[1], last.out[2])

\* C19: calculateFee(amountIn, feeRate) returns fee = amountIn * feeRate
\* and amountAfterFee = amountIn - fee, fee + amountAfterFee is amountIn
\* exactly, and of a larger feeRate for the same amountIn > 0 the fee is
\* strictly more
C19_FeeSplitExact ==
    (last.op = "calculateFee" /\ FGt(last.args[1], Zero))
        => /\ last.out[1].fee = FMul(last.args[1], last.args[2])
           /\ last.out[1].amountAfterFee = FSub(last.args[1], last.out[1].fee)
           /\ FAdd(last.out[1].fee, last.out[1].amountAfterFee) = last.args[1]
           /\ FLt(last.out[1].fee, last.out[2].fee)

\* C20: against any positive reserves the price impact the
\* handlers compute for a valid amount is at least 0 and below 1, and that
\* of half the amount against the same reserves is strictly smaller
C20_PriceImpactOfAnyReserves ==
    (last.op = "SwapQuantities" /\ last.error = "")
        => /\ FGe(last.out[1].priceImpact, Zero)
           /\ FLt(last.out[1].priceImpact, One)
           /\ FLt(last.out[2].priceImpact, last.out[1].priceImpact)

\* C21: for totalShares > 0 the shares calculateLiquidityShares returns are
\* those of the smaller of the two fractions amountA / reserveA and
\* amountB / reserveB: the fraction of one side times totalShares, and no
\* more than the fraction of either side times totalShares
C21_SharesOfSmallerFraction ==
    (/\ last.op = "calculateLiquidityShares"
     /\ FGt(last.args[5], Zero))
        => LET ofEth  == FMul(FDiv(last.args[1], last.args[3]), last.args[5])
               ofUsdc == FMul(FDiv(last.args[2], last.args[4]), last.args[5])
           IN  /\ last.error = ""
               /\ last.out[1] \in {ofEth, ofUsdc}
               /\ FLe(last.out[1], ofEth)
               /\ FLe(last.out[1], ofUsdc)

\* a deposit whose two fractions differ was credited
C21_Witness ==
    /\ last.op = "calculateLiquidityShares"
    /\ FGt(last.args[5], Zero)
    /\ FDiv(last.args[1], last.args[3]) # FDiv(last.args[2], last.args[4])
    /\ FGt(last.out[1], Zero)

JustBelow == Dec(999999999, 1000000000)
JustAbove == Dec(1000000001, 1000000000)

\* validateAddLiquidity was called with both amounts within the amount
\* bounds and both reserves above 0
RatioGateCalled ==
    /\ last.op = "validateAddLiquidity"
    /\ \A i \in 1..2 : /\ FGe(last.args[i], MIN_TRADE_AMOUNT)
                       /\ FLe(last.args[i], MAX_TRANSACTION_SIZE)
    /\ FGt(last.args[3], Zero)
    /\ FGt(last.args[4], Zero)

\* C23 as stated: with both amounts valid and both reserves above 0,
\* validateAddLiquidity accepts the deposit if and only if amountA / amountB
\* differs from reserveA / reserveB by at most 1% of reserveA / reserveB
C23_RatioGateOfReserveRatio ==
    RatioGateCalled
        => LET depositRatio == FDiv(last.args[1], last.args[2])
               reserveRatio == FDiv(last.args[3], last.args[4])
               gap          == FAbs(FSub(depositRatio, reserveRatio))
               limit        == FMul(Dec(1, 100), reserveRatio)
           IN  /\ FLt(gap, FMul(limit, JustBelow)) => last.out[1].valid
               /\ FGt(gap, FMul(limit, JustAbove)) => ~last.out[1].valid

\* C23, amended: with both amounts valid and both reserves above 0,
\* validateAddLiquidity returns without raising; it accepts the deposit when
\* amountB * reserveA differs from amountA * reserveB by less than 1% of
\* amountA * reserveB (the USDC-per-ETH ratio of the deposit within 1% of
\* the pool's) and each reserve with its amount reaches MIN_POOL_RESERVE;
\* it rejects it as not proportional when the difference is more than 1%,
\* and rejects it when a reserve with its amount stays below the minimum
C23_RatioGateOfEthFraction ==
    RatioGateCalled
        => LET x     == FMul(last.args[2], last.args[3])
               y     == FMul(last.args[1], last.args[4])
               gap   == FAbs(FSub(x, y))
               limit == FMul(Dec(1, 100), y)
               kept  == /\ FGe(FAdd(last.args[3], last.args[1]), MIN_POOL_RESERVE)
                        /\ FGe(FAdd(last.args[4], last.args[2]), MIN_POOL_RESERVE)
           IN  /\ last.error = ""
               /\ (FLt(gap, FMul(limit, JustBelow)) /\ kept) => last.out[1].valid
               /\ FGt(gap, FMul(limit, JustAbove))
                     => /\ ~last.out[1].valid
                        /\ last.out[1].error = "Amounts not proportional"
               /\ ~kept => ~last.out[1].valid

\* a deposit whose ratio differs from the pool's was accepted
C23_Witness ==
    /\ RatioGateCalled
    /\ FDiv(last.args[1], last.args[3]) # FDiv(last.args[2], last.args[4])
    /\ last.out[1].valid

\* C24: validateSwapAmount returns without raising; its result is valid
\* exactly when the amount is a finite number from 0.01 to 100000, both
\* included, and an invalid result carries a reason
C24_SwapAmountBounds ==
    last.op = "validateSwapAmount"
        => /\ last.error = ""
           /\ last.out[1].valid <=> /\ IsFinite(last.args[1])
                                    /\ FGe(last.args[1], Dec(1, 100))
                                    /\ FLe(last.args[1], FromInt(100000))
           /\ ~last.out[1].valid => last.out[1].error # ""

\* the amount 100000, the upper bound itself, was found valid
C24_Witness ==
    /\ last.op = "validateSwapAmount"
    /\ last.args[1] = FromInt(100000)
    /\ last.out[1].valid

\* the slippageTolerance of the request in last, when it sent one
SentTolerance ==
    IF last.tokens[1] = "/quote" THEN last.args[4] ELSE last.args[3]

\* a tolerance is a finite number from 0.0001 to 0.5
ToleranceInRange(v) ==
    IsFinite(v) /\ FGe(v, Dec(1, 10000)) /\ FLe(v, Dec(1, 2))

\* C25: validateSlippageTolerance finds a tolerance valid exactly when it
\* is a finite number from 0.0001 to 0.5; a /quote, /buy or /sell sent
\* with a tolerance outside that range is answered 400 with nothing
\* computed and the pool as it was, and one within it is served
C25_ToleranceBounds ==
    /\ last.op = "validateSlippageTolerance"
         => /\ last.error = ""
            /\ last.out[1].valid <=> ToleranceInRange(last.args[1])
    /\ (last.op \in {"/quote", "/buy", "/sell"} /\ SentTolerance # Undefined)
         => IF ToleranceInRange(SentTolerance)
            THEN last.status = 200
            ELSE last.status = 400 /\ last.out = <<>> /\ pool = last.pre

\* a /buy sent with the tolerance 0 was refused
C25_Witness ==
    /\ last.op = "/buy"
    /\ last.args[3] = Zero
    /\ last.status = 400
    /\ pool = last.pre

C27_TokenPairs ==
    /\ last.op = "validateSwapPair"
         => /\ last.error = ""
            /\ last.out[1].valid <=> /\ last.args[1] \in {"ETH", "USDC"}
                                     /\ last.args[2] \in {"ETH", "USDC"}
                                     /\ last.args[1] # last.args[2]
    /\ (last.op = "/quote" /\ last.args[3] = FromInt(10) /\ last.args[4] = Undefined)
         => /\ last.status = 200
                <=> <<last.args[1], last.args[2]>> \in {<<"ETH", "USDC">>, <<"USDC", "ETH">>}
            /\ last.status # 200 => last.status = 400 /\ pool = last.pre

\* a /quote of ETH for ETH was refused
C27_Witness ==
    /\ last.op = "/quote"
    /\ last.args[1] = "ETH"
    /\ last.args[2] = "ETH"
    /\ last.status = 400

\* the amounts a /remove-liquidity computed would leave a reserve below 100
BelowFloor ==
    /\ last.op = "remove-liquidity"
    /\ last.out # <<>>
    /\ \/ FLt(FSub(last.pre.ethReserve, last.out[1]), FromInt(100))
       \/ FLt(FSub(last.pre.usdcReserve, last.out[2]), FromInt(100))

\* C28: a served /remove-liquidity leaves both reserves at 100 or more, and
\* one whose amounts would leave a reserve below 100 is answered 400 with
\* the pool as it was
C28_WithdrawalKeepsFloor ==
    /\ (last.op = "remove-liquidity" /\ last.status = 200)
         => /\ FGe(pool.ethReserve, FromInt(100))
            /\ FGe(pool.usdcReserve, FromInt(100))
            /\ pool.ethReserve = FSub(last.pre.ethReserve, last.out[1])
            /\ pool.usdcReserve = FSub(last.pre.usdcReserve, last.out[2])
    /\ BelowFloor => last.status = 400 /\ pool = last.pre

\* a withdrawal that would leave a reserve below 100 was refused
C28_Witness ==
    /\ BelowFloor
    /\ last.status = 400
    /\ pool = last.pre
    /\ FGt(last.out[1], Zero)

\* C29: the security response headers (X-Content-Type-Options,
\* X-XSS-Protection, X-Frame-Options, Referrer-Policy,
\* Content-Security-Policy) are on a response only when the environment is
\* staging or production, and in development no response carries them
C29_HeadersOnlyInStagingAndProduction ==
    exchange.sent =>
        /\ exchange.headers \cap SecurityHeaders # {} => config.isStaging \/ config.isProd
        /\ config.isDev => exchange.headers \cap SecurityHeaders = {}

\* C30: in staging and production every request whose x-forwarded-proto is
\* not "https" is answered with a 301 redirect and reaches no route handler,
\* only responses that are not redirects carry Strict-Transport-Security,
\* and in development no request is redirected
C30_HttpsEnforcementOrdering ==
    exchange.sent =>
        /\ (config.isStaging \/ config.isProd) /\ exchange.proto # "https"
               => exchange.status = 301 /\ ~exchange.handled
        /\ "Strict-Transport-Security" \in exchange.headers => exchange.status # 301
        /\ config.isDev => exchange.status # 301

\* 10^12 = 5^12 * 2^12
TenTo12 == Shifted(FromInt(244140625), 12)

Routes == {"quote", "buy", "sell", "add-liquidity", "remove-liquidity"}

NoFees == [eth |-> Zero, usdc |-> Zero]

\* C31: resetPool, called in any pool state the requests reach, leaves
\* ethReserve = usdcReserve = totalShares = 1000000, accumulatedFees {0, 0}
\* and k = 10^12, the state the pool starts in; and no request to a route
\* resets the pool: a pool that has accumulated fees still has them after it
C31_ResetRestoresSeed ==
    /\ last.op = "resetPool" =>
           /\ pool.ethReserve = FromInt(1000000)
           /\ pool.usdcReserve = FromInt(1000000)
           /\ pool.totalShares = FromInt(1000000)
           /\ pool.accumulatedFees = NoFees
           /\ pool.k = TenTo12
           /\ pool = SeedPool
    /\ last.op \in Routes /\ last.pre.accumulatedFees # NoFees =>
           /\ pool.accumulatedFees # NoFees
           /\ pool # SeedPool

C31_Witness ==
    /\ last.op = "resetPool"
    /\ last.pre.accumulatedFees # NoFees
    /\ last.pre.totalShares # FromInt(1000000)
    /\ pool = SeedPool

EngineErrors ==
    {"Swap would break the pool", "Swap violates constant product formula",
     "Withdrawal would deplete reserves"}

\* C32: in every pool state the requests reach, a request that passes its
\* handler's validation is not answered with an error raised by executeSwap,
\* addLiquidity or withdrawLiquidity
C32_NoEngineErrorThroughApi ==
    last.op \in Routes => last.error \notin EngineErrors /\ last.status # 500

\* the value per share ethReserve * usdcReserve / totalShares^2 of pool q is
\* not below that of pool p
PerShareKept(p, q) == Do("PerShare", <<p, q, 0, 0>>)

\* it is not below that of pool p by more than one part in 2^30
PerShareNear(p, q) == Do("PerShare", <<p, q, 1, 30>>)

Mutated == last.op \in {"buy", "sell", "add-liquidity", "remove-liquidity"} /\ last.status = 200

DepositBurned ==
    /\ last.op = "remove-liquidity"
    /\ last.status = 200
    /\ last.prev.op = "add-liquidity"
    /\ last.prev.status = 200
    /\ last.args[1] = last.prev.out[3]

\* x is at most y, or above it by no more than the relative tolerance
AtMostNear(x, y) == FLe(FSub(x, y), FMul(RoundTripTolerance, y))

SwapThenSwap(first, second) ==
    /\ last.op = second
    /\ last.status = 200
    /\ last.prev.op = first
    /\ last.prev.status = 200

\* C35: a served /buy of X ETH followed at once by a served /sell of the
\* whole USDC output returns less than X ETH, and likewise a /sell followed
\* by a /buy of its whole output; and no /buy and /sell in a row, whatever
\* their amounts, pay out more of both assets than they took in
C35_RoundTripLoses ==
    /\ \A t \in {<<"buy", "sell">>, <<"sell", "buy">>} :
           SwapThenSwap(t[1], t[2]) =>
               /\ last.args[1] = last.prev.out[2] => FLt(last.out[2], last.prev.args[1])
               /\ ~(/\ FGt(last.out[2], last.prev.args[1])
                    /\ FGt(last.prev.out[2], last.args[1]))

\* a buy of 100000 ETH and the sale of all the USDC it paid out
C35_Witness ==
    /\ SwapThenSwap("buy", "sell")
    /\ last.prev.args[1] = FromInt(100000)
    /\ last.args[1] = last.prev.out[2]
    /\ FLt(last.out[2], last.prev.args[1])
    /\ last.prev.pre # SeedPool

\* C36: a /remove-liquidity with 0 < sharesToBurn <= totalShares whose
\* proportional withdrawal leaves both reserves at 100 or more is accepted
\* and executed
C36_WithdrawalComplete ==
    last.op = "remove-liquidity" =>
        LET shares == last.args[1]
            p      == last.pre
            w      == calculateWithdrawalAmounts(shares, p.ethReserve, p.usdcReserve,
                                                 p.totalShares)
        IN  (/\ IsFinite(shares)
             /\ FGt(shares, Zero)
             /\ FLe(shares, p.totalShares)
             /\ FGe(FSub(p.ethReserve, w.ethAmount), MIN_POOL_RESERVE)
             /\ FGe(FSub(p.usdcReserve, w.usdcAmount), MIN_POOL_RESERVE))
                => /\ last.status = 200
                   /\ pool.totalShares = FSub(p.totalShares, shares)

SwapReturned(l) == l.op = "executeSwap" /\ l.error = ""

\* C37: after every successful executeSwap, whatever its amounts,
\* k >= ethReserve * usdcReserve >= k - eps with eps = max(0.001, 5e-15 * k),
\* and k has not decreased; so after two in a row the product is within one
\* eps of the highest product of the three pools: shortfalls do not add up
C37_ShortfallsDoNotAccumulate ==
    /\ SwapReturned(last) =>
           /\ FGe(pool.k, ReserveProduct(pool))
           /\ FGe(ReserveProduct(pool), FSub(pool.k, Epsilon(pool.k)))
           /\ FGe(pool.k, last.pre.k)
    /\ (SwapReturned(last) /\ SwapReturned(last.prev)) =>
           FGe(ReserveProduct(pool),
               FSub(FMax(ReserveProduct(last.prev.pre), ReserveProduct(last.pre)),
                    Epsilon(pool.k)))

\* a swap returned on a pool whose product a returned swap had left below k
C37_Witness ==
    /\ SwapReturned(last)
    /\ SwapReturned(last.prev)
    /\ FLt(ReserveProduct(last.pre), last.pre.k)
    /\ FLt(ReserveProduct(pool), pool.k)

\* the spot price usdcReserve / ethReserve of pool p
SpotPrice(p) == calculateSpotPrice(p.usdcReserve, p.ethReserve)

\* a served /remove-liquidity
Withdrawn == last.op = "remove-liquidity" /\ last.status = 200

\* the amounts of a served /remove-liquidity are the same fraction,
\* sharesToBurn / totalShares, of the two reserves, and were subtracted
SameFraction ==
    LET fraction == FDiv(last.args[1], last.pre.totalShares)
    IN  /\ last.out[1] = FMul(last.pre.ethReserve, fraction)
        /\ last.out[2] = FMul(last.pre.usdcReserve, fraction)
        /\ pool.ethReserve = FSub(last.pre.ethReserve, last.out[1])
        /\ pool.usdcReserve = FSub(last.pre.usdcReserve, last.out[2])

\* a swap leaves totalShares as it was, a deposit and a withdrawal leave the
\* accumulated fees as they were
Frame ==
    /\ SwapServed => pool.totalShares = last.pre.totalShares
    /\ last.op \in {"add-liquidity", "remove-liquidity"} =>
           pool.accumulatedFees = last.pre.accumulatedFees

Single ==
    Handle("/" \o last.op, last.prev.pre,
           SwapRequest(FAdd(last.prev.args[1], last.args[1]), Undefined, Undefined))

\* two served swaps in a row on one route, whose amounts together are
\* served as one request
SplitServed ==
    /\ \E route \in {"buy", "sell"} : SwapThenSwap(route, route)
    /\ Single.status = 200

\* the pools p and q hold the same to within the relative tolerance
NearPool(p, q) ==
    /\ Near(p.ethReserve, q.ethReserve)
    /\ Near(p.usdcReserve, q.usdcReserve)
    /\ Near(p.accumulatedFees.eth, q.accumulatedFees.eth)
    /\ Near(p.accumulatedFees.usdc, q.accumulatedFees.usdc)
    /\ Near(p.k, q.k)
    /\ p.totalShares = q.totalShares

====
